---- MODULE Spec2Model ----
(***************************************************************************)
(* A model of the translation core of m2c (backend/m2c/src/translate.py):  *)
(* the expression-sharing protocol (EvalOnceExpr.use / force), the         *)
(* symbolic register state of one node (RegInfo, NodeState), and the       *)
(* dominator-driven translation of a flow graph with phi resolution over   *)
(* two passes.                                                             *)
(*                                                                         *)
(* Expressions live in a pool (a sequence of records); an expression is    *)
(* identified by its index, which stands for Python object identity.       *)
(* Index 0 stands for None.                                                *)
(***************************************************************************)
EXTENDS Integers, Sequences, FiniteSets, TLC

\* ------------------------------------------------------------------------
\* Bounds of the model
\* ------------------------------------------------------------------------

\* Number of instructions evaluated in the node of the node-level machine.
MaxInstrs == 4

\* Largest literal value loaded by an instruction.
MaxLit == 2

\* ------------------------------------------------------------------------
\* Registers
\* ------------------------------------------------------------------------

\* Registers of the model: two argument registers, a callee-saved register
\* and the return register.
Regs == {"a0", "a1", "s0", "v0"}

\* arch.temp_regs: the caller-save registers cleared by a function call.
TempRegs == {"a0", "a1", "v0"}

\* arch.saved_regs
SavedRegs == {"s0"}

\* arch.argument_regs
ArgumentRegs == {"a0", "a1"}

\* arch.base_return_regs (the float return register is never set by the
\* instructions of the model)
BaseReturnRegs == <<"v0">>

\* ------------------------------------------------------------------------
\* Expressions
\* ------------------------------------------------------------------------

\* Expression classes declared with eq=True: compared by their fields.
EqKinds == {"Literal", "PassedInArg", "LocalVar", "StructAccess", "Cast"}

\* The operators of a BinaryOp, kept in its val field: "^" (and the "!="
\* of a branch condition), "+" and "*".
OpXor == 0

OpAdd == 1

OpMul == 2

\* A pool entry. x and y are the sub-expressions (0 when absent), val the
\* integer payload (literal value, offset, argument index, symbol,
\* operator).
MkExpr(kind, x, y, val) ==
    [kind |-> kind, x |-> x, y |-> y, val |-> val,
     \* EvalOnceExpr
     var |-> 0, source |-> 0, emit_exactly_once |-> FALSE, trivial |-> FALSE,
     transparent |-> FALSE, forced_emit |-> FALSE, is_used |-> FALSE,
     \* NaivePhiExpr / PlannedPhiExpr
     reg |-> "", node |-> 0, sources |-> <<>>, uses_dominator |-> FALSE,
     named |-> FALSE, num_usages |-> 0, replacement_expr |-> 0]

\* Allocation of a new expression object.
Alloc(m, rec) ==
    [m EXCEPT !.exprs = Append(@, rec), !.use_calls = Append(@, 0),
              !.ret = Len(m.exprs) + 1]

LastId(m) == Len(m.exprs)

\* Allocation of a new Var (is_emitted = False, no name yet).
AllocVar(m) == [m EXCEPT !.vars = Append(@, [is_emitted |-> FALSE])]

LastVar(m) == Len(m.vars)

\* A variant of uses_var that does not look at the trivial flag.
UsesVarOfTrivial(m, e) ==
    m.vars[m.exprs[e].var].is_emitted

\* EvalOnceExpr.uses_var
UsesVar(m, e) ==
    m.vars[m.exprs[e].var].is_emitted /\ ~m.exprs[e].trivial

\* EvalOnceExpr.format: the wrapper is formatted as its Var or as its
\* wrapped expression.
EvalOnceExprFormat(m, e) ==
    IF ~UsesVar(m, e) THEN <<"expr", m.exprs[e].x>> ELSE <<"var", m.exprs[e].var>>

\* Expression.dependencies of every class of the model.
Dependencies(m, e) ==
    LET x == m.exprs[e] IN
    CASE x.kind = "EvalOnceExpr" ->
            IF UsesVar(m, e) THEN <<>> ELSE <<x.x>>
      [] x.kind \in {"NaivePhiExpr", "PlannedPhiExpr"} -> <<>>
      [] x.kind \in {"StructAccess", "Cast"} -> <<x.x>>
      [] x.kind = "BinaryOp" -> <<x.x, x.y>>
      [] x.kind = "FuncCall" ->
            (IF x.x = 0 THEN <<>> ELSE <<x.x>>) \o (IF x.y = 0 THEN <<>> ELSE <<x.y>>)
      [] OTHER -> <<>>

\* Python == on expressions: field-wise for eq=True classes, identity
\* otherwise.
RECURSIVE ExprEq(_, _, _)
ExprEq(m, a, b) ==
    \/ a = b
    \/ /\ a # 0 /\ b # 0
       /\ m.exprs[a].kind = m.exprs[b].kind
       /\ m.exprs[a].kind \in EqKinds
       /\ m.exprs[a].val = m.exprs[b].val
       /\ ExprEq(m, m.exprs[a].x, m.exprs[b].x)

\* is_trivial_expression
IsTrivialExpression(m, e) ==
    m.exprs[e].kind \in {"Literal", "GlobalSymbol"}

\* should_wrap_transparently
ShouldWrapTransparently(m, e) ==
    m.exprs[e].kind \in {"EvalOnceExpr", "Literal", "GlobalSymbol", "LocalVar",
                         "PassedInArg", "NaivePhiExpr", "PlannedPhiExpr"}

\* Expression.use, EvalOnceExpr.use and NaivePhiExpr.use.  use_calls counts
\* the use() calls each expression object has received.
RECURSIVE Use(_, _)
UseAll(m, deps) ==
    IF Len(deps) = 0 THEN m
    ELSE IF Len(deps) = 1 THEN Use(m, deps[1])
    ELSE Use(Use(m, deps[1]), deps[2])

\* A variant of EvalOnceExpr.use that marks the Var emitted already on the
\* first use of an opaque wrapper.
EvalOnceExprUseEmitsOnFirstUse(m, e) ==
    LET x == m.exprs[e] IN
    IF x.trivial \/ (x.transparent /\ ~m.vars[x.var].is_emitted)
    THEN [Use(m, x.x) EXCEPT !.exprs[e].is_used = TRUE]
    ELSE [(IF ~x.is_used /\ ~x.emit_exactly_once THEN Use(m, x.x) ELSE m)
            EXCEPT !.vars[x.var].is_emitted = TRUE, !.exprs[e].is_used = TRUE]

\* A variant of EvalOnceExpr.use that forwards the first use of every opaque
\* wrapper, an emit_exactly_once wrapper included.
EvalOnceExprUseForwardsAlways(m, e) ==
    LET x == m.exprs[e] IN
    IF x.trivial \/ (x.transparent /\ ~m.vars[x.var].is_emitted)
    THEN [Use(m, x.x) EXCEPT !.exprs[e].is_used = TRUE]
    ELSE IF ~x.is_used
    THEN [Use(m, x.x) EXCEPT !.exprs[e].is_used = TRUE]
    ELSE [m EXCEPT !.vars[x.var].is_emitted = TRUE, !.exprs[e].is_used = TRUE]

\* A variant of EvalOnceExpr.use that forwards every use of an opaque
\* wrapper, not only the first.
EvalOnceExprUseForwardsEveryUse(m, e) ==
    LET x == m.exprs[e] IN
    IF x.trivial \/ (x.transparent /\ ~m.vars[x.var].is_emitted)
    THEN [Use(m, x.x) EXCEPT !.exprs[e].is_used = TRUE]
    ELSE [(IF ~x.emit_exactly_once THEN Use(m, x.x) ELSE m)
            EXCEPT !.vars[x.var].is_emitted = x.is_used \/ @,
                   !.exprs[e].is_used = TRUE]

EvalOnceExprUse(m, e) ==
    LET x == m.exprs[e] IN
    IF x.trivial \/ (x.transparent /\ ~m.vars[x.var].is_emitted)
    THEN [Use(m, x.x) EXCEPT !.exprs[e].is_used = TRUE]
    ELSE IF ~x.is_used
    THEN [(IF ~x.emit_exactly_once THEN Use(m, x.x) ELSE m)
            EXCEPT !.exprs[e].is_used = TRUE]
    ELSE [m EXCEPT !.vars[x.var].is_emitted = TRUE, !.exprs[e].is_used = TRUE]

NaivePhiExprUse(m, e) ==
    LET m1 == IF m.exprs[e].num_usages = 0
              THEN [m EXCEPT !.used_naive_phis = Append(@, e)]
              ELSE m
        m2 == [m1 EXCEPT !.exprs[e].num_usages = @ + 1]
    IN IF m2.exprs[e].replacement_expr # 0
       THEN Use(m2, m2.exprs[e].replacement_expr)
       ELSE m2

Use(m, e) ==
    LET m1 == [m EXCEPT !.use_calls[e] = @ + 1] IN
    CASE m.exprs[e].kind = "EvalOnceExpr" -> EvalOnceExprUse(m1, e)
      [] m.exprs[e].kind = "NaivePhiExpr" -> NaivePhiExprUse(m1, e)
      [] OTHER -> UseAll(m1, Dependencies(m1, e))

\* A variant of force that does not look at forced_emit: every call marks
\* the wrapper and uses it twice.
ForceAgain(m, e) ==
    IF ~m.exprs[e].trivial
    THEN LET m1 == [m EXCEPT !.exprs[e].forced_emit = TRUE,
                             !.vars[m.exprs[e].var].is_emitted = TRUE]
         IN Use(Use(m1, e), e)
    ELSE m

\* EvalOnceExpr.force
Force(m, e) ==
    IF ~m.exprs[e].forced_emit /\ ~m.exprs[e].trivial
    THEN LET m1 == [m EXCEPT !.exprs[e].forced_emit = TRUE,
                             !.vars[m.exprs[e].var].is_emitted = TRUE]
         IN Use(Use(m1, e), e)
    ELSE m

\* late_unwrap
RECURSIVE LateUnwrap(_, _)
LateUnwrap(m, e) ==
    IF m.exprs[e].kind = "EvalOnceExpr" /\ ~UsesVar(m, e)
    THEN LateUnwrap(m, m.exprs[e].x)
    ELSE IF m.exprs[e].kind = "NaivePhiExpr" /\ m.exprs[e].replacement_expr # 0
    THEN LateUnwrap(m, m.exprs[e].replacement_expr)
    ELSE e

\* transparent_unwrap
RECURSIVE TransparentUnwrap(_, _)
TransparentUnwrap(m, e) ==
    IF m.exprs[e].kind = "EvalOnceExpr" /\ m.exprs[e].transparent /\ ~UsesVar(m, e)
    THEN TransparentUnwrap(m, m.exprs[e].x)
    ELSE e

\* early_unwrap
RECURSIVE EarlyUnwrap(_, _)
EarlyUnwrap(m, e) ==
    IF /\ m.exprs[e].kind = "EvalOnceExpr"
       /\ ~m.exprs[e].forced_emit
       /\ ~m.exprs[e].emit_exactly_once
    THEN EarlyUnwrap(m, m.exprs[e].x)
    ELSE e

\* var_for_expr (0 stands for None)
VarForExpr(m, e) ==
    IF m.exprs[e].kind = "PlannedPhiExpr" THEN m.exprs[e].var
    ELSE IF m.exprs[e].kind = "EvalOnceExpr" /\ ~m.exprs[e].trivial
    THEN m.exprs[e].var
    ELSE 0

\* ------------------------------------------------------------------------
\* Statements
\* ------------------------------------------------------------------------

MkStmt(kind, expr, dest) == [kind |-> kind, expr |-> expr, dest |-> dest]

\* A variant of should_write that writes the statement of every
\* emit_exactly_once wrapper, used or not.
ShouldWriteEveryEmitExactlyOnce(m, st) ==
    CASE st.kind = "EvalOnceStmt" ->
            LET x == m.exprs[st.expr] IN
            IF x.emit_exactly_once THEN TRUE
            ELSE IF ~m.vars[x.var].is_emitted THEN FALSE
            ELSE IF VarForExpr(m, LateUnwrap(m, x.x)) = x.var THEN FALSE
            ELSE TRUE
      [] st.kind = "SetNaivePhiStmt" -> LateUnwrap(m, st.expr) # st.dest
      [] OTHER -> TRUE

\* Statement.should_write of EvalOnceStmt, SetNaivePhiStmt, StoreStmt,
\* ExprStmt and CommentStmt.
ShouldWrite(m, st) ==
    CASE st.kind = "EvalOnceStmt" ->
            LET x == m.exprs[st.expr] IN
            IF x.emit_exactly_once /\ ~x.is_used THEN TRUE
            ELSE IF ~m.vars[x.var].is_emitted THEN FALSE
            ELSE IF VarForExpr(m, LateUnwrap(m, x.x)) = x.var THEN FALSE
            ELSE TRUE
      [] st.kind = "SetNaivePhiStmt" -> LateUnwrap(m, st.expr) # st.dest
      [] OTHER -> TRUE

\* EvalOnceStmt.format: the wrapped expression as a statement of its own for
\* an emit_exactly_once wrapper that was never used, the assignment of the
\* wrapped expression to the Var otherwise.
EvalOnceStmtFormat(m, st) ==
    IF m.exprs[st.expr].emit_exactly_once /\ ~m.exprs[st.expr].is_used
    THEN <<"expression", m.exprs[st.expr].x>>
    ELSE <<"assignment", m.exprs[st.expr].var, m.exprs[st.expr].x>>

\* ------------------------------------------------------------------------
\* Instructions
\* ------------------------------------------------------------------------

\* Stack offsets of local variables used by the stack loads and stores.
StackOffsets == {8}

\* StackInfo.allocated_stack_size of the modelled function.
AllocatedStackSize == 16

\* An Instruction: is_conditional is its attribute of that name, eval_fn
\* tells whether it has a handler (kind names the handler), and short whether
\* its argument list lacks the last argument the handler asks for.
NoInstr == [id |-> 0, kind |-> "none", rd |-> "", rs |-> "", rt |-> "", val |-> 0,
            inputs |-> {}, outputs |-> {}, clobbers |-> {},
            is_conditional |-> FALSE, eval_fn |-> FALSE, short |-> FALSE]

MkInstr(id, kind, rd, rs, rt, val, inputs, outputs, clobbers) ==
    [id |-> id, kind |-> kind, rd |-> rd, rs |-> rs, rt |-> rt, val |-> val,
     inputs |-> inputs, outputs |-> outputs, clobbers |-> clobbers,
     is_conditional |-> kind = "bnez", eval_fn |-> TRUE, short |-> FALSE]

\* ------------------------------------------------------------------------
\* RegInfo
\* ------------------------------------------------------------------------

\* RegData with its RegMeta; present = FALSE stands for "no entry".
NoRegData ==
    [present |-> FALSE, value |-> 0, inherited |-> FALSE, initial |-> FALSE,
     is_read |-> FALSE, function_return |-> FALSE, uninteresting |-> FALSE,
     force |-> FALSE, in_pattern |-> FALSE]

MkRegData(value, inherited, initial, uninteresting, force, in_pattern, function_return) ==
    [present |-> TRUE, value |-> value, inherited |-> inherited, initial |-> initial,
     is_read |-> FALSE, function_return |-> function_return,
     uninteresting |-> uninteresting, force |-> force, in_pattern |-> in_pattern]

\* The keys a RegInfo can be asked for: the registers and the hardwired
\* zero register.
AllRegs == Regs \cup {"zero"}

\* A RegInfo without entries.
NoRegisters == [r \in AllRegs |-> NoRegData]

\* An exception is raised: it is kept in the error field until translate_block
\* catches it; error_instr is the instruction being processed.
Raise(m, exception) ==
    [m EXCEPT !.error = exception, !.error_instr = m.active_instr.id]

\* A variant of __getitem__ that does not look at the inputs of the active
\* instruction.
RegInfoGetItemUnchecked(m, key) ==
    IF key = "zero"
    THEN Alloc(m, MkExpr("Literal", 0, 0, 0))
    ELSE IF ~m.regs[key].present
    THEN Alloc(m, MkExpr("ErrorExpr", 0, 0, 0))
    ELSE LET data == m.regs[key]
             ret == data.value
             triv == m.exprs[ret].kind = "EvalOnceExpr" /\ m.exprs[ret].trivial
             m1 == [m EXCEPT !.regs[key].is_read = TRUE,
                             !.read_inherited =
                                 IF data.inherited THEN @ \cup {key} ELSE @,
                             !.ret = IF triv THEN m.exprs[ret].x ELSE ret]
         IN IF triv THEN m1
            ELSE IF data.force THEN Force(m1, ret) ELSE m1

\* A variant of __getitem__ that answers for the zero register before it
\* looks at the inputs of the active instruction.
RegInfoGetItemZeroFirst(m, key) ==
    IF key = "zero"
    THEN Alloc(m, MkExpr("Literal", 0, 0, 0))
    ELSE IF m.active_instr.id # 0 /\ key \notin m.active_instr.inputs
    THEN Alloc(m, MkExpr("ErrorExpr", 0, 0, 0))
    ELSE IF ~m.regs[key].present
    THEN Alloc(m, MkExpr("ErrorExpr", 0, 0, 0))
    ELSE LET data == m.regs[key]
             ret == data.value
             triv == m.exprs[ret].kind = "EvalOnceExpr" /\ m.exprs[ret].trivial
             m1 == [m EXCEPT !.regs[key].is_read = TRUE,
                             !.read_inherited =
                                 IF data.inherited THEN @ \cup {key} ELSE @,
                             !.ret = IF triv THEN m.exprs[ret].x ELSE ret]
         IN IF triv THEN m1
            ELSE IF data.force THEN Force(m1, ret) ELSE m1

\* A variant of __getitem__ that notes the read of a register without entry
\* in read_inherited.
RegInfoGetItemNotingUnset(m, key) ==
    IF m.active_instr.id # 0 /\ key \notin m.active_instr.inputs
    THEN Alloc(m, MkExpr("ErrorExpr", 0, 0, 0))
    ELSE IF key = "zero"
    THEN Alloc(m, MkExpr("Literal", 0, 0, 0))
    ELSE IF ~m.regs[key].present
    THEN [Alloc(m, MkExpr("ErrorExpr", 0, 0, 0)) EXCEPT !.read_inherited = @ \cup {key}]
    ELSE LET data == m.regs[key]
             ret == data.value
             triv == m.exprs[ret].kind = "EvalOnceExpr" /\ m.exprs[ret].trivial
             m1 == [m EXCEPT !.regs[key].is_read = TRUE,
                             !.read_inherited =
                                 IF data.inherited THEN @ \cup {key} ELSE @,
                             !.ret = IF triv THEN m.exprs[ret].x ELSE ret]
         IN IF triv THEN m1
            ELSE IF data.force THEN Force(m1, ret) ELSE m1

\* A variant of __getitem__ that does not look at the force flag of the
\* register.
RegInfoGetItemIgnoringForce(m, key) ==
    IF m.active_instr.id # 0 /\ key \notin m.active_instr.inputs
    THEN Alloc(m, MkExpr("ErrorExpr", 0, 0, 0))
    ELSE IF key = "zero"
    THEN Alloc(m, MkExpr("Literal", 0, 0, 0))
    ELSE IF ~m.regs[key].present
    THEN Alloc(m, MkExpr("ErrorExpr", 0, 0, 0))
    ELSE LET data == m.regs[key]
             ret == data.value
             triv == m.exprs[ret].kind = "EvalOnceExpr" /\ m.exprs[ret].trivial
         IN [m EXCEPT !.regs[key].is_read = TRUE,
                      !.read_inherited =
                          IF data.inherited THEN @ \cup {key} ELSE @,
                      !.ret = IF triv THEN m.exprs[ret].x ELSE ret]

\* RegInfo.__getitem__: the machine after the read; its ret field is the
\* expression the read returns.
RegInfoGetItem(m, key) ==
    IF m.active_instr.id # 0 /\ key \notin m.active_instr.inputs
    THEN Alloc(m, MkExpr("ErrorExpr", 0, 0, 0))
    ELSE IF key = "zero"
    THEN Alloc(m, MkExpr("Literal", 0, 0, 0))
    ELSE IF ~m.regs[key].present
    THEN Alloc(m, MkExpr("ErrorExpr", 0, 0, 0))
    ELSE LET data == m.regs[key]
             ret == data.value
             triv == m.exprs[ret].kind = "EvalOnceExpr" /\ m.exprs[ret].trivial
             m1 == [m EXCEPT !.regs[key].is_read = TRUE,
                             !.read_inherited =
                                 IF data.inherited THEN @ \cup {key} ELSE @,
                             !.ret = IF triv THEN m.exprs[ret].x ELSE ret]
         IN IF triv THEN m1
            ELSE IF data.force THEN Force(m1, ret) ELSE m1

\* A read of a register as the handlers do it; the reads field keeps, for
\* every read since the start of the operation, the key, the active
\* instruction, the expression returned, and whether the read left the
\* register contents with their metadata and read_inherited as they were.
ReadReg(m, key) ==
    LET Log(m1) ==
            [m1 EXCEPT !.reads = Append(@,
                [key |-> key, instr |-> m.active_instr.id,
                 declared |-> key \in m.active_instr.inputs,
                 present |-> m.regs[key].present,
                 ret |-> m1.ret,
                 raised |-> m1.error # m.error,
                 unchanged |-> /\ \A r \in AllRegs : m1.regs[r] = m.regs[r]
                              /\ m1.read_inherited = m.read_inherited])]
    IN Log(RegInfoGetItem(m, key))

\* RegInfo.get_raw (0 stands for None)
GetRaw(m, key) == IF m.regs[key].present THEN m.regs[key].value ELSE 0

\* A variant of set_with_meta that does not look at the outputs of the
\* active instruction.
SetWithMetaUnchecked(m, key, data) ==
    IF key = "zero" THEN Raise(m, "AssertionError")
    ELSE [m EXCEPT !.regs[key] = data]

\* RegInfo.set_with_meta (inside an instruction) and global_set_with_meta
\* (active_instr is None): the write of a register that the active
\* instruction does not declare as an output raises DecompFailure.
SetWithMeta(m, key, data) ==
    IF m.active_instr.id # 0 /\ key \notin m.active_instr.outputs
    THEN Raise(m, "DecompFailure")
    ELSE IF key = "zero" THEN Raise(m, "AssertionError")
    ELSE [m EXCEPT !.regs[key] = data]

\* RegInfo.__delitem__
DelReg(m, key) == [m EXCEPT !.regs[key] = NoRegData]

\* ------------------------------------------------------------------------
\* NodeState
\* ------------------------------------------------------------------------

\* StackInfo.get_planned_var (without --reg-vars); 0 stands for None.
GetPlannedVar(m, reg, source) ==
    IF \E p \in m.planned_vars : p.reg = reg /\ p.source = source
    THEN (CHOOSE p \in m.planned_vars : p.reg = reg /\ p.source = source).var
    ELSE 0

\* The expr_filter callbacks handed to _prevent_later_uses.
ValueFilter(e) == [kind |-> "value", expr |-> e, vars |-> {}]
VarsFilter(vs) == [kind |-> "vars", expr |-> 0, vars |-> vs]
CallFilter == [kind |-> "call", expr |-> 0, vars |-> {}]
ReadFilter == [kind |-> "read", expr |-> 0, vars |-> {}]

FilterMatches(m, f, e) ==
    CASE f.kind = "value" -> ExprEq(m, e, f.expr)
      [] f.kind = "vars" -> VarForExpr(m, e) \in f.vars
      [] f.kind = "call" -> m.exprs[e].kind = "FuncCall"
      [] OTHER -> m.exprs[e].kind \in {"StructAccess", "ArrayAccess"}

\* uses_expr (the model has no AddressOf, so the parent test never applies)
RECURSIVE UsesExpr(_, _, _)
UsesExpr(m, e, f) ==
    \/ FilterMatches(m, f, e)
    \/ \E i \in 1..Len(Dependencies(m, e)) : UsesExpr(m, Dependencies(m, e)[i], f)

\* NodeState._prevent_later_uses
PreventLaterUses(m, f) ==
    [m EXCEPT !.regs =
        [r \in DOMAIN m.regs |->
            IF /\ m.regs[r].present
               /\ m.exprs[m.regs[r].value].kind \notin {"PlannedPhiExpr", "NaivePhiExpr"}
               /\ ~m.regs[r].force
               /\ UsesExpr(m, m.regs[r].value, f)
            THEN [m.regs[r] EXCEPT !.force = TRUE]
            ELSE m.regs[r]]]

\* NodeState.prevent_later_value_uses
PreventLaterValueUses(m, e) == PreventLaterUses(m, ValueFilter(e))

\* NodeState.prevent_later_var_uses
PreventLaterVarUses(m, vs) == PreventLaterUses(m, VarsFilter(vs))

\* NodeState.prevent_later_function_calls
PreventLaterFunctionCalls(m) == PreventLaterUses(m, CallFilter)

\* A variant of prevent_later_reads that filters on function calls instead of
\* struct/array reads.
PreventLaterReadsWrongFilter(m) == PreventLaterUses(m, CallFilter)

\* NodeState.prevent_later_reads
PreventLaterReads(m) == PreventLaterUses(m, ReadFilter)

\* NodeState.write_statement
WriteStatement(m, st) == [m EXCEPT !.to_write = Append(@, st)]

\* NodeState._eval_once; the ret field of the result is the new
\* EvalOnceExpr.  Types always unify, so as_type returns its argument.
EvalOnce(m, expr, emit_exactly_once, transparent, reg, source) ==
    LET planned_var == GetPlannedVar(m, reg, source)
        trivial == transparent /\ IsTrivialExpression(m, expr)
        UseExpr(m0) == IF emit_exactly_once THEN Use(m0, expr) ELSE m0
        NewVar(m1) == IF planned_var # 0
                      THEN PreventLaterVarUses(m1, {planned_var})
                      ELSE AllocVar(m1)
        Wrap(m2) == Alloc(m2, [MkExpr("EvalOnceExpr", expr, 0, 0) EXCEPT
                        !.var = IF planned_var # 0 THEN planned_var ELSE LastVar(m2),
                        !.source = source,
                        !.emit_exactly_once = emit_exactly_once,
                        !.trivial = trivial, !.transparent = transparent])
        Write(m3) == WriteStatement(m3, MkStmt("EvalOnceStmt", m3.ret, 0))
        Plan(m4) == IF planned_var # 0
                    THEN Use([m4 EXCEPT !.vars[planned_var].is_emitted = TRUE], m4.ret)
                    ELSE m4
    IN Plan(Write(Wrap(NewVar(UseExpr(m)))))

\* NodeState.set_initial_reg
SetInitialReg(m, reg, expr, uninteresting) ==
    LET Set(m1) == SetWithMeta(m1, reg,
                       MkRegData(m1.ret, FALSE, TRUE, uninteresting, FALSE, FALSE, FALSE))
        Read(m2) == IF m2.vars[m2.exprs[m2.ret].var].is_emitted
                    THEN ReadReg(m2, reg)
                    ELSE m2
    IN Read(Set(EvalOnce(m, expr, FALSE, TRUE, reg, 0)))

\* NodeState.set_reg_real; the ret field of the result is the new
\* EvalOnceExpr.  A value for the zero register is emitted as a statement.
SetRegReal(m, reg, uw_expr, transparent, emit_exactly_once, function_return) ==
    LET Set(m1) ==
            IF reg = "zero"
            THEN [WriteStatement(Use(m1, m1.ret), MkStmt("ExprStmt", m1.ret, 0))
                     EXCEPT !.ret = m1.ret]
            ELSE SetWithMeta(m1, reg,
                     MkRegData(m1.ret, FALSE, FALSE, FALSE, FALSE, FALSE, function_return))
    IN Set(EvalOnce(m, uw_expr, emit_exactly_once, transparent, reg, m.active_instr.id))

\* NodeState.local_var_writes, a dict keyed by LocalVar (compared by offset),
\* kept as a set of entries [loc, reg, expr].
HasLocalVarWrite(m, loc) == \E w \in m.local_var_writes : w.loc = loc

LocalVarWrite(m, loc) == CHOOSE w \in m.local_var_writes : w.loc = loc

\* NodeState.set_reg with an expression: a restore of a register from the
\* stack slot it was saved to is replaced by the saved expression.
SetReg(m, reg, expr) ==
    LET x == m.exprs[expr]
        e2 == IF /\ x.kind = "LocalVar"
                 /\ HasLocalVarWrite(m, x.val)
                 /\ LocalVarWrite(m, x.val).reg = reg
              THEN LocalVarWrite(m, x.val).expr
              ELSE expr
    IN SetRegReal(m, reg, e2, ShouldWrapTransparently(m, e2), FALSE, FALSE)

\* NodeState.clear_caller_save_regs
ClearCallerSaveRegs(m) ==
    [m EXCEPT !.regs = [r \in DOMAIN m.regs |->
                            IF r \in TempRegs THEN NoRegData ELSE m.regs[r]]]

\* The registers that are force-flagged (RegMeta.force).
Flagged(m) == {r \in DOMAIN m.regs : m.regs[r].present /\ m.regs[r].force}

\* The registers holding a wrapper in which uses_expr finds a match of f.
RegsUsing(m, f) ==
    {r \in DOMAIN m.regs :
        /\ m.regs[r].present
        /\ m.exprs[m.regs[r].value].kind = "EvalOnceExpr"
        /\ UsesExpr(m, m.regs[r].value, f)}

NoOp == [kind |-> "none", with_dest |-> {}, with_call |-> {}, with_read |-> {},
         forced_at_append |-> {}, forced_at_end |-> {},
         end_with_call |-> {}, end_with_read |-> {}]

\* What an invalidating operation sees at the moment its statement is
\* appended (last_op): the registers that are force-flagged and the ones
\* holding the destination, a function call or a struct read.
AtAppend(m, kind, dest) ==
    [m EXCEPT !.last_op =
        [NoOp EXCEPT !.kind = kind,
                     !.with_dest = IF dest = 0 THEN {} ELSE RegsUsing(m, ValueFilter(dest)),
                     !.with_call = RegsUsing(m, CallFilter),
                     !.with_read = RegsUsing(m, ReadFilter),
                     !.forced_at_append = Flagged(m)]]

\* The same when the operation returns.
AtEnd(m) ==
    [m EXCEPT !.last_op.forced_at_end = Flagged(m),
              !.last_op.end_with_call = RegsUsing(m, CallFilter),
              !.last_op.end_with_read = RegsUsing(m, ReadFilter)]

\* NodeState.store_memory for a destination that is not a SubroutineArg.
StoreMemory(m, source, dest, reg) ==
    LET Record(m0) ==
            IF m0.exprs[dest].kind = "LocalVar"
            THEN [m0 EXCEPT !.local_var_writes =
                    {w \in @ : w.loc # m0.exprs[dest].val}
                    \cup {[loc |-> m0.exprs[dest].val, reg |-> reg, expr |-> source]}]
            ELSE m0
        Prevent(m2) == PreventLaterFunctionCalls(PreventLaterValueUses(m2, dest))
        Write(m4) == WriteStatement(AtAppend(m4, "store", dest),
                                    MkStmt("StoreStmt", source, dest))
    IN AtEnd(Write(Prevent(Use(Use(Record(m), source), dest))))

\* A should_save that finds nothing to elide.
ShouldSaveNothing(m, expr, offset) == FALSE

\* StackInfo.should_save
ShouldSave(m, expr, offset) ==
    LET x == m.exprs[EarlyUnwrap(m, expr)] IN
    \/ x.kind = "GlobalSymbol"
    \/ x.kind = "PassedInArg" /\ offset = AllocatedStackSize + x.val

\* deref of an AddressMode: a stack slot gives its LocalVar
\* (get_stack_var); otherwise the base register is read and a StructAccess
\* is created.  The ret field of the result is the new expression.
Deref(m, rb, offset) ==
    LET Struct(m2, off) == Alloc(m2, MkExpr("StructAccess", m2.ret, 0, off))
        Access(m1) ==
            IF m1.exprs[m1.ret].kind = "Literal" /\ m1.exprs[m1.ret].val % 65536 = 0
            THEN Struct(Alloc(m1, MkExpr("Literal", 0, 0, m1.exprs[m1.ret].val + offset)), 0)
            ELSE Struct(m1, offset)
    IN IF rb = "sp"
       THEN Alloc(m, MkExpr("LocalVar", 0, 0, offset))
       ELSE Access(ReadReg(m, rb))

\* handle_add for "addu rd, rs, rt" whose operands are not Literals: the sum,
\* which fold_mul_chains turns into a multiplication by 2 when both operands
\* unwrap to equal expressions.  The ret field of the result is the value.
HandleAdd(m, instr) ==
    LET Right(m1) == [ReadReg(m1, instr.rt) EXCEPT !.aux = m1.ret]
        Fold(m2) ==
            IF ExprEq(m2, EarlyUnwrap(m2, m2.aux), EarlyUnwrap(m2, m2.ret))
            THEN LET m3 == Alloc(m2, MkExpr("Literal", 0, 0, 2))
                 IN Alloc(m3, MkExpr("BinaryOp", m2.aux, m3.ret, OpMul))
            ELSE Alloc(m2, MkExpr("BinaryOp", m2.aux, m2.ret, OpAdd))
    IN Fold(Right(ReadReg(m, instr.rs)))

\* The instruction handlers that compute the value of the output register;
\* the ret field of the result is that value.
\*   "li rd, val"      Literal(val)
\*   "move rd, rs"     regs[rs]
\*   "xor rd, rs, rt"  BinaryOp(regs[rs], "^", regs[rt])
\*   "lw rd, val(rs)"  handle_load
InstrValue(m, instr) ==
    LET Right(m1) == [ReadReg(m1, instr.rt) EXCEPT !.aux = m1.ret]
        Op(m2) == Alloc(m2, MkExpr("BinaryOp", m2.aux, m2.ret, 0))
    IN CASE instr.kind = "li" -> Alloc(m, MkExpr("Literal", 0, 0, instr.val))
         [] instr.kind = "move" -> ReadReg(m, instr.rs)
         [] instr.kind = "xor" -> Op(Right(ReadReg(m, instr.rs)))
         [] instr.kind = "addu" -> HandleAdd(m, instr)
         [] OTHER -> Deref(m, instr.rs, instr.val)

\* make_store for "sw rs, val(rt)": the ret field of the result is the
\* destination and its aux field the source; ret is 0 when the store is the
\* save of a register that still holds its entry value, which is elided.
MakeStore(m, instr) ==
    LET source_raw == GetRaw(m, instr.rs)
        Dest(m1) ==
            IF /\ instr.rt = "sp"
               /\ source_raw # 0
               /\ ShouldSave(m1, source_raw, instr.val)
            THEN [m1 EXCEPT !.ret = 0]
            ELSE [Deref(m1, instr.rt, instr.val) EXCEPT !.aux = m1.ret]
    IN Dest(ReadReg(m, instr.rs))

\* NodeState.make_function_call for "jal": instr.rs is the argument register
\* the ABI selects ("" when the call takes no argument), instr.outputs the
\* return registers.
MakeFunctionCall(m, instr) ==
    LET Args(m0) == IF instr.rs # "" THEN ReadReg(m0, instr.rs) ELSE [m0 EXCEPT !.ret = 0]
        Call(m1) == Alloc(m1, MkExpr("FuncCall", m1.ret, 0, 0))
        Eval(m2) == AtAppend(EvalOnce(m2, m2.ret, TRUE, FALSE, "ret", instr.id), "call", 0)
        Prevent(m3) == PreventLaterReads(PreventLaterFunctionCalls(ClearCallerSaveRegs(m3)))
        Return(m6) == Alloc(m6, MkExpr("Cast", m6.ret, 0, 0))
        Out(m7) == IF "v0" \in instr.outputs
                   THEN SetRegReal(m7, "v0", m7.ret, FALSE, FALSE, TRUE)
                   ELSE m7
        Done(m8) == IF m8.error # "" THEN m8
                    ELSE [m8 EXCEPT !.has_function_call = TRUE]
    IN Done(Out(Return(AtEnd(Prevent(Eval(Call(Args(m))))))))

\* NodeState.set_branch_condition
SetBranchCondition(m, cond) ==
    IF m.node \notin m.graph.conditional \/ m.branch_condition # 0
    THEN Raise(m, "AssertionError")
    ELSE [m EXCEPT !.branch_condition = cond]

\* A variant of the exit of NodeState.current_instr that leaves the
\* instruction active when an exception passes through.
CurrentInstrExitAfterSuccess(m) ==
    IF m.error # "" THEN m ELSE [m EXCEPT !.active_instr = NoInstr]

\* The finally clause of NodeState.current_instr.
CurrentInstrExit(m) == [m EXCEPT !.active_instr = NoInstr]

\* The assertion of evaluate_instruction before the handler of a conditional
\* instruction: neither a branch condition nor a switch control is set yet.
CheckNothingSet(m, instr) ==
    IF instr.is_conditional /\ m.branch_condition # 0
    THEN Raise(m, "AssertionError")
    ELSE m

\* A variant of the assertion after the handler that accepts a conditional
\* instruction that has set nothing.
CheckSomethingSetSkipped(m, instr) == m

\* The assertion of evaluate_instruction after the handler of a conditional
\* instruction: a branch condition or a switch control is set.
CheckSomethingSet(m, instr) ==
    IF m.error = "" /\ instr.is_conditional /\ m.branch_condition = 0
    THEN Raise(m, "AssertionError")
    ELSE m

\* evaluate_instruction inside NodeState.current_instr.  InstrArgs.raw_arg
\* raises DecompFailure when the handler asks for an argument the
\* instruction does not have.
EvaluateInstruction(m, instr) ==
    LET Enter(m0) == [m0 EXCEPT !.active_instr = instr]
        Set(m1) == SetReg(m1, instr.rd, m1.ret)
        Store(m1) == IF m1.ret = 0 THEN m1
                     ELSE StoreMemory(m1, m1.aux, m1.ret, instr.rs)
        Cond(m1) == SetBranchCondition(Alloc(m1, MkExpr("BinaryOp", m1.aux, m1.ret, 0)),
                                       Len(m1.exprs) + 1)
        Branch(m1) == Cond(Alloc([m1 EXCEPT !.aux = m1.ret], MkExpr("Literal", 0, 0, 0)))
        Eval(m1) == CASE m1.error # "" \/ ~instr.eval_fn -> m1
                      [] instr.short -> Raise(m1, "DecompFailure")
                      [] instr.kind \in {"li", "move", "xor", "addu", "lw"} ->
                            Set(InstrValue(m1, instr))
                      [] instr.kind = "sw" -> Store(MakeStore(m1, instr))
                      [] instr.kind = "jal" -> MakeFunctionCall(m1, instr)
                      [] instr.kind = "bnez" -> Branch(ReadReg(m1, instr.rs))
                      [] OTHER -> m1
    IN CurrentInstrExit(CheckSomethingSet(Eval(CheckNothingSet(Enter(m), instr)), instr))

\* ------------------------------------------------------------------------
\* Flow graph
\* ------------------------------------------------------------------------

\* A flow graph as the translator sees it (Node.parents,
\* Node.immediate_dominator, Node.immediately_dominates, in listed order).
\* Node 1 is the entry node, the node after the last one is the
\* TerminalNode, and conditional is the set of ConditionalNodes.
MkGraph(parents, immediate_dominator, immediately_dominates, conditional) ==
    [parents |-> parents, immediate_dominator |-> immediate_dominator,
     immediately_dominates |-> immediately_dominates,
     conditional |-> conditional, terminal |-> Len(parents) + 1,
     blocks |-> [n \in 1..Len(parents) |-> <<>>]]

\* 1 -> {2, 3} -> 4 -> T
Diamond ==
    MkGraph(<< <<>>, <<1>>, <<1>>, <<2, 3>> >>, <<0, 1, 1, 1>>,
            << <<2, 3, 4>>, <<>>, <<>>, <<5>> >>, {1})

\* 1 -> {2, 3}, 2 -> 3 -> T
IfThen ==
    MkGraph(<< <<>>, <<1>>, <<1, 2>> >>, <<0, 1, 1>>,
            << <<2, 3>>, <<>>, <<4>> >>, {1})

\* 1 -> {2, 3}, 2 -> T, 3 -> T
EarlyReturn ==
    MkGraph(<< <<>>, <<1>>, <<1>> >>, <<0, 1, 1>>,
            << <<2, 4, 3>>, <<>>, <<>> >>, {1})

\* 1 -> 2 -> {2, 3}, 3 -> T
Loop ==
    MkGraph(<< <<>>, <<1, 2>>, <<2>> >>, <<0, 1, 2>>,
            << <<2>>, <<3>>, <<4>> >>, {2})

\* 1 -> 2 -> {3, T}, 3 -> {3, 2}
NestedLoop ==
    MkGraph(<< <<>>, <<1, 3>>, <<2, 3>> >>, <<0, 1, 2>>,
            << <<2>>, <<3, 4>>, <<>> >>, {2, 3})

Graphs == {Diamond, IfThen, EarlyReturn, Loop, NestedLoop}

Nodes(g) == 1..Len(g.parents)

\* The instruction forms of the blocks of a flow graph.
LiV0(k) == MkInstr(0, "li", "v0", "", "", k, {}, {"v0"}, {})
LwS0 == MkInstr(0, "lw", "s0", "a0", "", 0, {"a0"}, {"s0"}, {})
MoveV0S0 == MkInstr(0, "move", "v0", "s0", "", 0, {"s0"}, {"v0"}, {})
SwV0(rt) == MkInstr(0, "sw", "", "v0", rt, 0, {"v0", rt}, {}, {})
JalF == MkInstr(0, "jal", "", "", "", 0, {}, {"v0"}, TempRegs \ {"v0"})
BnezA0 == MkInstr(0, "bnez", "", "a0", "", 0, {"a0"}, {}, {})

\* Number of literal values loaded by the blocks of the flow graphs.
MaxBlockLit == 1

\* The literal values loaded by the blocks.
Literals == {4 + k : k \in 1..MaxBlockLit}

\* The bodies a block may have (without the branch that ends the block of a
\* ConditionalNode).
Blocks ==
    {<<>>, <<LwS0>>, <<JalF>>, <<SwV0("s0")>>,
     <<SwV0("a0"), MoveV0S0, LwS0>>}
    \cup {<<LiV0(k)>> : k \in Literals}

\* The instructions of node n with body block: every instruction is an
\* object of its own, identified by its id.
NodeBlock(g, n, block) ==
    LET full == IF n \in g.conditional THEN Append(block, BnezA0) ELSE block
    IN [i \in 1..Len(full) |-> [full[i] EXCEPT !.id = 4 * n + i]]

\* The flow graphs with their blocks.
FlowGraphs ==
    UNION {{[g EXCEPT !.blocks = [n \in Nodes(g) |-> NodeBlock(g, n, body[n])]] :
               body \in [Nodes(g) -> Blocks]} : g \in Graphs}

\* instr_nodes of assign_naive_phis: the node an instruction belongs to.
InstrNode(g, id) ==
    CHOOSE n \in Nodes(g) : \E i \in 1..Len(g.blocks[n]) : g.blocks[n][i].id = id

\* The walk of vars_clobbered_until_dominator from the parents of a node
\* towards its immediate dominator: the nodes it visits.
RECURSIVE WalkUntilDominator(_, _, _)
WalkUntilDominator(g, stack, seen) ==
    IF stack = <<>> THEN seen
    ELSE LET n == stack[Len(stack)]
             rest == SubSeq(stack, 1, Len(stack) - 1)
         IN IF n \in seen
            THEN WalkUntilDominator(g, rest, seen)
            ELSE WalkUntilDominator(g, rest \o g.parents[n], seen \cup {n})

NodesUntilDominator(g, node) ==
    WalkUntilDominator(g, g.parents[node], {g.immediate_dominator[node]})
        \ {g.immediate_dominator[node]}

\* The instructions of a set of nodes.
InstrsOf(g, ns) == UNION {{g.blocks[n][i] : i \in 1..Len(g.blocks[n])} : n \in ns}

\* locs_clobbered_until_dominator (flow graph builder): the registers that
\* an instruction met by the walk writes or clobbers.
LocsClobberedUntilDominator(g, node) ==
    UNION {instr.outputs \cup instr.clobbers :
              instr \in InstrsOf(g, NodesUntilDominator(g, node))}

\* vars_clobbered_until_dominator
VarsClobberedUntilDominator(m, node) ==
    {GetPlannedVar(m, p[1], p[2].id) :
        p \in {q \in Regs \X InstrsOf(m.graph, NodesUntilDominator(m.graph, node)) :
                  q[1] \in q[2].outputs}} \ {0}

\* The inner loop of reg_sources over the instructions of a block, last
\* one first: the index of the last instruction that writes or clobbers reg
\* (0 when there is none).
LastEffect(block, reg) ==
    LET hits == {i \in 1..Len(block) : reg \in block[i].outputs \cup block[i].clobbers}
    IN IF hits = {} THEN 0 ELSE CHOOSE i \in hits : \A j \in hits : j <= i

\* reg_sources: the loop over the stack of nodes.
RECURSIVE RegSourcesLoop(_, _, _, _, _, _)
RegSourcesLoop(g, node, reg, stack, seen, acc) ==
    IF stack = <<>> THEN acc
    ELSE LET n == stack[Len(stack)]
             rest == SubSeq(stack, 1, Len(stack) - 1)
             acc1 == [acc EXCEPT !.uses_dominator =
                                    @ \/ n = g.immediate_dominator[node]]
             last == LastEffect(g.blocks[n], reg)
         IN IF n \in seen
            THEN RegSourcesLoop(g, node, reg, rest, seen, acc1)
            ELSE IF last = 0
            THEN RegSourcesLoop(g, node, reg, rest \o g.parents[n], seen \cup {n}, acc1)
            ELSE IF reg \in g.blocks[n][last].outputs
            THEN RegSourcesLoop(g, node, reg, rest, seen \cup {n},
                     [acc1 EXCEPT !.sources = Append(@, g.blocks[n][last].id)])
            ELSE [sources |-> <<>>, uses_dominator |-> FALSE]

\* A variant of reg_sources that goes on to the parents of a node in which
\* the register is clobbered instead of giving up.
RegSourcesIgnoringClobbers(g, node, reg) ==
    RegSourcesLoop([g EXCEPT !.blocks =
                        [n \in Nodes(g) |->
                            [i \in 1..Len(g.blocks[n]) |->
                                [g.blocks[n][i] EXCEPT !.clobbers = {}]]]],
                   node, reg, g.parents[node], {g.immediate_dominator[node]},
                   [sources |-> <<>>, uses_dominator |-> FALSE])

\* reg_sources
RegSources(g, node, reg) ==
    RegSourcesLoop(g, node, reg, g.parents[node], {g.immediate_dominator[node]},
                   [sources |-> <<>>, uses_dominator |-> FALSE])

\* ------------------------------------------------------------------------
\* PlannedVar and PersistentFunctionState.planned_vars
\* ------------------------------------------------------------------------

\* A PlannedVar is identified by the (register, source) key it was created
\* for; the persistent planned_vars map gives each its _parent (NoParent
\* when it has none).
NoParent == <<"", 0>>

\* PlannedVar.get_representative: the root it returns.
RECURSIVE Representative(_, _)
Representative(pv, k) ==
    IF pv[k] = NoParent THEN k ELSE Representative(pv, pv[k])

\* The PlannedVars on the way from k to its root (the root excluded).
RECURSIVE PathToRoot(_, _)
PathToRoot(pv, k) ==
    IF pv[k] = NoParent THEN {} ELSE {k} \cup PathToRoot(pv, pv[k])

\* PlannedVar.get_representative: the path compression it performs.
Compress(pv, k) ==
    [x \in DOMAIN pv |->
        IF x \in PathToRoot(pv, k) THEN Representative(pv, k) ELSE pv[x]]

\* A variant of PlannedVar.join that forgets to link the two roots.
JoinWithoutLink(pv, self, other) == Compress(Compress(pv, self), other)

\* A variant of PlannedVar.join that links self, and not its representative,
\* to the representative of other.
JoinLinkingSelf(pv, self, other) ==
    IF Representative(pv, self) # Representative(pv, other)
    THEN [Compress(Compress(pv, self), other) EXCEPT
              ![self] = Representative(pv, other)]
    ELSE Compress(Compress(pv, self), other)

\* PlannedVar.join
Join(pv, self, other) ==
    IF Representative(pv, self) # Representative(pv, other)
    THEN [Compress(Compress(pv, self), other) EXCEPT
              ![Representative(pv, self)] = Representative(pv, other)]
    ELSE Compress(Compress(pv, self), other)

\* StackInfo.get_persistent_planned_var: the map with the PlannedVar of the
\* key in it.
GetPersistentPlannedVar(pv, k) ==
    IF k \in DOMAIN pv THEN pv
    ELSE [x \in DOMAIN pv \cup {k} |-> IF x = k THEN NoParent ELSE pv[x]]

\* ------------------------------------------------------------------------
\* Translation of a flow graph
\* ------------------------------------------------------------------------

\* BlockInfo; present = FALSE stands for a node without block info.
\* active_instr is the active_instr of the RegInfo kept as
\* final_register_states (the id of the instruction, 0 for None).
NoBlockInfo ==
    [present |-> FALSE, to_write |-> <<>>, final_register_states |-> NoRegisters,
     branch_condition |-> 0, switch_control |-> 0, has_function_call |-> FALSE,
     active_instr |-> 0, read_inherited |-> {}, return_value |-> 0]

\* translate_node_body: the loop over the instructions of the block, from
\* the i-th one on.
RECURSIVE EvaluateInstructions(_, _, _)
EvaluateInstructions(m, block, i) ==
    IF i > Len(block) \/ m.error # "" THEN m
    ELSE EvaluateInstructions(EvaluateInstruction(m, block[i]), block, i + 1)

\* A variant of translate_node_body in which the node works on the RegInfo
\* of its immediate dominator instead of a copy: what the node leaves in its
\* registers is also the final state of the dominator.
TranslateNodeBodyOnDominatorRegs(m, node) ==
    LET Branch(m1) == IF m1.branch_condition # 0
                      THEN Use(m1, m1.branch_condition)
                      ELSE m1
        dom == m.graph.immediate_dominator[node]
        Info(m2) == [m2 EXCEPT !.block_info =
                        [n \in DOMAIN @ |->
                            IF n = node
                            THEN [present |-> TRUE, to_write |-> m2.to_write,
                                  final_register_states |-> m2.regs,
                                  branch_condition |-> m2.branch_condition,
                                  switch_control |-> 0,
                                  has_function_call |-> m2.has_function_call,
                                  active_instr |-> m2.active_instr.id,
                                  read_inherited |-> m2.read_inherited,
    return_value |-> 0]
                            ELSE IF n = dom
                            THEN [@[n] EXCEPT !.final_register_states = m2.regs]
                            ELSE @[n]]]
        Return(m1) == IF m1.error # "" THEN m1 ELSE Info(Branch(m1))
    IN Return(EvaluateInstructions(m, m.graph.blocks[node], 1))

\* translate_node_body; the BlockInfo it returns is attached to the node
\* (Block.add_block_info in translate_all_blocks).
TranslateNodeBody(m, node) ==
    LET Branch(m1) == IF m1.branch_condition # 0
                      THEN Use(m1, m1.branch_condition)
                      ELSE m1
        Info(m2) == [m2 EXCEPT !.block_info[node] =
                        [present |-> TRUE, to_write |-> m2.to_write,
                         final_register_states |-> m2.regs,
                         branch_condition |-> m2.branch_condition,
                         switch_control |-> 0,
                         has_function_call |-> m2.has_function_call,
                         active_instr |-> m2.active_instr.id,
                         read_inherited |-> m2.read_inherited,
    return_value |-> 0]]
        Return(m1) == IF m1.error # "" THEN m1 ELSE Info(Branch(m1))
    IN Return(EvaluateInstructions(m, m.graph.blocks[node], 1))

\* A variant of the except clause that keeps the statements the node had
\* produced before the exception and puts the error comments after them.
CatchExceptionKeepingStatements(m, node) ==
    LET Comments(m1) ==
            <<MkStmt("CommentStmt", 0, 0)>> \o
            (IF m1.error_instr # 0 THEN <<MkStmt("CommentStmt", 0, m1.error_instr)>>
             ELSE <<>>)
        Info(m2) == [m2 EXCEPT !.block_info[node] =
                        [present |-> TRUE, to_write |-> m.to_write \o Comments(m),
                         final_register_states |-> m.regs,
                         branch_condition |-> m2.ret,
                         switch_control |-> 0,
                         has_function_call |-> FALSE,
                         active_instr |-> m.active_instr.id,
                         read_inherited |-> m.read_inherited,
    return_value |-> 0],
                     !.error = "", !.error_instr = 0]
    IN IF m.stop_on_error THEN [m EXCEPT !.raised = m.error]
       ELSE Info(Alloc(m, MkExpr("ErrorExpr", 0, 0, 0)))

\* The except clause of translate_block: with stop_on_error the exception is
\* raised again and leaves translate_all_blocks; otherwise the block info of
\* the node is made of the error comments ("Error: ..." and, for an
\* exception that carries its instruction, "At instruction: ...") and of an
\* ErrorExpr as branch condition.
CatchException(m, node) ==
    LET Comments(m1) ==
            <<MkStmt("CommentStmt", 0, 0)>> \o
            (IF m1.error_instr # 0 THEN <<MkStmt("CommentStmt", 0, m1.error_instr)>>
             ELSE <<>>)
        Info(m2) == [m2 EXCEPT !.block_info[node] =
                        [present |-> TRUE, to_write |-> Comments(m),
                         final_register_states |-> m.regs,
                         branch_condition |-> m2.ret,
                         switch_control |-> 0,
                         has_function_call |-> FALSE,
                         active_instr |-> m.active_instr.id,
                         read_inherited |-> m.read_inherited,
    return_value |-> 0],
                     !.error = "", !.error_instr = 0]
    IN IF m.stop_on_error THEN [m EXCEPT !.raised = m.error]
       ELSE Info(Alloc(m, MkExpr("ErrorExpr", 0, 0, 0)))

\* The order in which create_dominated_node_state goes through the phi
\* registers.
RegOrder == <<"a0", "s0", "v0">>

\* A variant of the loop body that drops a register whose sources do not
\* include the dominator.
PhiRegDropsWithoutDominator(m, child, reg) ==
    LET dom_expr == GetRaw(m, reg)
        Sources(rs) ==
            IF ~rs.uses_dominator THEN <<>>
            ELSE IF dom_expr = 0 THEN <<>>
            ELSE IF m.exprs[dom_expr].kind = "EvalOnceExpr"
            THEN Append(rs.sources, m.exprs[dom_expr].source)
            ELSE rs.sources \o m.exprs[dom_expr].sources
        Set(m1) == [m1 EXCEPT !.new_regs[reg] =
                       MkRegData(m1.ret, TRUE, FALSE, FALSE, FALSE, FALSE, FALSE)]
        Build(rs, sources) ==
            IF sources # <<>>
            THEN Set(Alloc(m, [MkExpr("NaivePhiExpr", 0, 0, 0) EXCEPT
                                  !.reg = reg, !.node = child, !.sources = sources,
                                  !.uses_dominator = rs.uses_dominator]))
            ELSE [m EXCEPT !.new_regs[reg] = NoRegData]
        Source(rs) == Build(rs, Sources(rs))
    IN Source(RegSources(m.graph, child, reg))

\* A variant of the loop body that leaves the source of the value of the
\* dominator out of the sources of the phi.
PhiRegWithoutDominatorSource(m, child, reg) ==
    LET Phi(rs, sources, var) ==
            IF var # 0 /\ \A i \in 2..Len(sources) : GetPlannedVar(m, reg, sources[i]) = var
            THEN [MkExpr("PlannedPhiExpr", 0, 0, 0) EXCEPT
                     !.var = var, !.sources = sources]
            ELSE [MkExpr("NaivePhiExpr", 0, 0, 0) EXCEPT
                     !.reg = reg, !.node = child, !.sources = sources,
                     !.uses_dominator = rs.uses_dominator]
        Set(m1) == [m1 EXCEPT !.new_regs[reg] =
                       MkRegData(m1.ret, TRUE, FALSE, FALSE, FALSE, FALSE, FALSE)]
        Build(rs, sources) ==
            IF sources # <<>>
            THEN Set(Alloc(m, Phi(rs, sources, GetPlannedVar(m, reg, sources[1]))))
            ELSE [m EXCEPT !.new_regs[reg] = NoRegData]
        Source(rs) == Build(rs, IF rs.uses_dominator /\ GetRaw(m, reg) = 0
                                THEN <<>> ELSE rs.sources)
    IN IF <<reg, child>> \in m.planned_inherited_phis /\ m.new_regs[reg].present
       THEN [m EXCEPT !.new_regs[reg].initial = FALSE]
       ELSE Source(RegSources(m.graph, child, reg))

\* create_dominated_node_state: the body of the loop over phi_regs for one
\* register.  regs holds the registers of the parent state, new_regs those of
\* the child state.
PhiReg(m, child, reg) ==
    LET dom_expr == GetRaw(m, reg)
        Sources(rs) ==
            IF ~rs.uses_dominator THEN rs.sources
            ELSE IF dom_expr = 0 THEN <<>>
            ELSE IF m.exprs[dom_expr].kind = "EvalOnceExpr"
            THEN Append(rs.sources, m.exprs[dom_expr].source)
            ELSE rs.sources \o m.exprs[dom_expr].sources
        Phi(rs, sources, var) ==
            IF var # 0 /\ \A i \in 2..Len(sources) : GetPlannedVar(m, reg, sources[i]) = var
            THEN [MkExpr("PlannedPhiExpr", 0, 0, 0) EXCEPT
                     !.var = var, !.sources = sources]
            ELSE [MkExpr("NaivePhiExpr", 0, 0, 0) EXCEPT
                     !.reg = reg, !.node = child, !.sources = sources,
                     !.uses_dominator = rs.uses_dominator]
        Set(m1) == [m1 EXCEPT !.new_regs[reg] =
                       MkRegData(m1.ret, TRUE, FALSE, FALSE, FALSE, FALSE, FALSE)]
        Build(rs, sources) ==
            IF sources # <<>>
            THEN Set(Alloc(m, Phi(rs, sources, GetPlannedVar(m, reg, sources[1]))))
            ELSE [m EXCEPT !.new_regs[reg] = NoRegData]
        Source(rs) == Build(rs, Sources(rs))
    IN IF <<reg, child>> \in m.planned_inherited_phis /\ m.new_regs[reg].present
       THEN [m EXCEPT !.new_regs[reg].initial = FALSE]
       ELSE Source(RegSources(m.graph, child, reg))

\* create_dominated_node_state: the loop over phi_regs, from the i-th
\* register of RegOrder on.
RECURSIVE PhiRegs(_, _, _)
PhiRegs(m, child, i) ==
    IF i > Len(RegOrder) THEN m
    ELSE IF RegOrder[i] \in LocsClobberedUntilDominator(m.graph, child)
    THEN PhiRegs(PhiReg(m, child, RegOrder[i]), child, i + 1)
    ELSE PhiRegs(m, child, i + 1)

\* create_dominated_node_state; the child state is pushed on the
\* translate_stack (translate_all_blocks).
CreateDominatedNodeState(m, child) ==
    LET Inherit(m0) ==
            [m0 EXCEPT !.new_regs =
                [r \in AllRegs |->
                    IF m0.regs[r].present
                    THEN MkRegData(m0.regs[r].value, TRUE, m0.regs[r].initial, FALSE,
                                   m0.regs[r].force, FALSE, FALSE)
                    ELSE NoRegData]]
        Prevent(m2) ==
            [m2 EXCEPT !.new_regs =
                PreventLaterVarUses([m2 EXCEPT !.regs = m2.new_regs],
                                    VarsClobberedUntilDominator(m2, child)).regs]
        Push(m3) ==
            [m3 EXCEPT !.translate_stack =
                Append(@, [node |-> child, regs |-> m3.new_regs, to_write |-> <<>>])]
    IN Push(Prevent(PhiRegs(Inherit(m), child, 1)))

\* A variant of the loop that pushes the children in their listed order.
RECURSIVE PushChildrenInListedOrder(_, _, _)
PushChildrenInListedOrder(m, children, i) ==
    IF i = 0 THEN m
    ELSE IF children[Len(children) + 1 - i] = m.graph.terminal
    THEN PushChildrenInListedOrder(m, children, i - 1)
    ELSE PushChildrenInListedOrder(
             CreateDominatedNodeState(m, children[Len(children) + 1 - i]),
             children, i - 1)

\* translate_all_blocks: the loop over reversed(immediately_dominates), from
\* the i-th child (counted from the last) on.
RECURSIVE PushChildren(_, _, _)
PushChildren(m, children, i) ==
    IF i = 0 THEN m
    ELSE IF children[i] = m.graph.terminal
    THEN PushChildren(m, children, i - 1)
    ELSE PushChildren(CreateDominatedNodeState(m, children[i]), children, i - 1)

\* One iteration of the loop of translate_all_blocks: translate_block on
\* the state taken from the worklist, then the states of the children.
TranslateBlock(m) ==
    LET top == m.translate_stack[Len(m.translate_stack)]
        Pop(m0) ==
            [m0 EXCEPT !.translate_stack = SubSeq(@, 1, Len(@) - 1),
                       !.node = top.node,
                       !.regs = top.regs, !.read_inherited = {},
                       !.to_write = top.to_write, !.local_var_writes = {},
                       !.has_function_call = FALSE, !.branch_condition = 0,
                       !.last_op = NoOp,
                       !.order = Append(@, top.node)]
        Except(m1) == IF m1.error # "" THEN CatchException(m1, top.node) ELSE m1
        Children(m1) ==
            IF m1.raised # "" THEN m1
            ELSE PushChildren(m1, m1.graph.immediately_dominates[top.node],
                              Len(m1.graph.immediately_dominates[top.node]))
    IN Children(Except(TranslateNodeBody(Pop(m), top.node)))

\* ------------------------------------------------------------------------
\* propagate_register_meta
\* ------------------------------------------------------------------------

\* Node.children() among the nodes with a block, in node order.
ChildrenOf(g, n) ==
    LET cs == {c \in Nodes(g) : \E i \in 1..Len(g.parents[c]) : g.parents[c][i] = n}
        RECURSIVE Listed(_)
        Listed(k) == IF k > Len(g.parents) THEN <<>>
                     ELSE (IF k \in cs THEN <<k>> ELSE <<>>) \o Listed(k + 1)
    IN Listed(1)

\* final_register_states.get_meta(reg) of a node; present = FALSE stands
\* for None.
FinalMeta(m, n, reg) == m.block_info[n].final_register_states[reg]

\* The non-terminal nodes, in the order of flow_graph.nodes.
NonTerminal(g) == [n \in 1..Len(g.parents) |-> n]

\* First loop of propagate_register_meta: a register read as inherited is
\* read in every parent.
SetReadFromInherited(m, reg) ==
    [m EXCEPT !.block_info =
        [p \in DOMAIN @ |->
            IF /\ @[p].final_register_states[reg].present
               /\ \E n \in Nodes(m.graph) :
                     /\ reg \in m.block_info[n].read_inherited
                     /\ \E i \in 1..Len(m.graph.parents[n]) : m.graph.parents[n][i] = p
            THEN [@[p] EXCEPT !.final_register_states[reg].is_read = TRUE]
            ELSE @[p]]]

\* Second loop, one iteration: a node is taken from the end of the worklist
\* todo; when it inherited the register and read it, is_read is set in its
\* parents and they join the worklist.  The result is the pair of the
\* machine and the worklist.
PopIsRead(m, reg, todo) ==
    LET n == todo[Len(todo)]
        rest == SubSeq(todo, 1, Len(todo) - 1)
        meta == FinalMeta(m, n, reg)
        RECURSIVE Parents(_, _, _)
        Parents(m1, td, i) ==
            IF i > Len(m.graph.parents[n]) THEN <<m1, td>>
            ELSE LET p == m.graph.parents[n][i]
                     par_meta == FinalMeta(m1, p, reg)
                 IN IF /\ par_meta.present /\ ~par_meta.is_read
                       /\ meta.present /\ meta.inherited /\ FinalMeta(m1, n, reg).is_read
                    THEN Parents([m1 EXCEPT
                                    !.block_info[p].final_register_states[reg].is_read = TRUE],
                                 Append(td, p), i + 1)
                    ELSE Parents(m1, td, i + 1)
    IN Parents(m, rest, 1)

\* Second loop: is_read goes backwards from a node that inherited the
\* register and read it, until the worklist is empty.
RECURSIVE PropagateIsRead(_, _, _)
PropagateIsRead(m, reg, todo) ==
    LET Next(r) == PropagateIsRead(r[1], reg, r[2])
    IN IF todo = <<>> THEN m ELSE Next(PopIsRead(m, reg, todo))

\* Third loop: the flags of an inherited register are assumed set, a
\* register set in the node is uninteresting when it was read or comes from
\* a function call or a pattern.
AssumeInherited(m, reg) ==
    [m EXCEPT !.block_info =
        [n \in DOMAIN @ |->
            LET meta == @[n].final_register_states[reg] IN
            IF ~meta.present THEN @[n]
            ELSE IF meta.inherited
            THEN [@[n] EXCEPT !.final_register_states[reg].uninteresting = TRUE,
                              !.final_register_states[reg].function_return = TRUE,
                              !.final_register_states[reg].in_pattern = TRUE]
            ELSE [@[n] EXCEPT !.final_register_states[reg].uninteresting =
                                  \/ meta.uninteresting \/ meta.is_read
                                  \/ meta.function_return \/ meta.in_pattern]]]

\* A variant of the iteration of the fourth loop that does not put the
\* children of a node whose flag it unsets back on the worklist.
PopForwardsWithoutChildren(m, reg, todo) ==
    LET n == todo[Len(todo)]
        rest == SubSeq(todo, 1, Len(todo) - 1)
        meta == FinalMeta(m, n, reg)
        pars == {m.graph.parents[n][i] : i \in 1..Len(m.graph.parents[n])}
        set == {p \in pars : FinalMeta(m, p, reg).present}
        all_uninteresting == \A p \in set : FinalMeta(m, p, reg).uninteresting
        all_function_return == \A p \in set : FinalMeta(m, p, reg).function_return
        all_in_pattern == \A p \in set : FinalMeta(m, p, reg).in_pattern
        drop_u == meta.uninteresting /\ ~all_uninteresting /\ ~meta.is_read
        drop_f == meta.function_return /\ ~all_function_return
        drop_p == meta.in_pattern /\ ~all_in_pattern
        Unset(m1) ==
            [m1 EXCEPT !.block_info[n].final_register_states[reg] =
                [@ EXCEPT !.uninteresting = IF drop_u THEN FALSE ELSE @,
                          !.function_return = IF drop_f THEN FALSE ELSE @,
                          !.in_pattern = IF drop_p THEN FALSE ELSE @]]
    IN IF ~meta.present \/ ~meta.inherited
       THEN <<m, rest>>
       ELSE <<Unset(m), rest>>

\* Fourth loop, one iteration: a node is taken from the end of the worklist
\* todo; a flag of an inherited register is unset when a parent does not
\* have it, and the children of the node join the worklist.  The result is
\* the pair of the machine and the worklist.
PopForwards(m, reg, todo) ==
    LET n == todo[Len(todo)]
        rest == SubSeq(todo, 1, Len(todo) - 1)
        meta == FinalMeta(m, n, reg)
        pars == {m.graph.parents[n][i] : i \in 1..Len(m.graph.parents[n])}
        set == {p \in pars : FinalMeta(m, p, reg).present}
        all_uninteresting == \A p \in set : FinalMeta(m, p, reg).uninteresting
        all_function_return == \A p \in set : FinalMeta(m, p, reg).function_return
        all_in_pattern == \A p \in set : FinalMeta(m, p, reg).in_pattern
        drop_u == meta.uninteresting /\ ~all_uninteresting /\ ~meta.is_read
        drop_f == meta.function_return /\ ~all_function_return
        drop_p == meta.in_pattern /\ ~all_in_pattern
        Again(b) == IF b THEN ChildrenOf(m.graph, n) ELSE <<>>
        Unset(m1) ==
            [m1 EXCEPT !.block_info[n].final_register_states[reg] =
                [@ EXCEPT !.uninteresting = IF drop_u THEN FALSE ELSE @,
                          !.function_return = IF drop_f THEN FALSE ELSE @,
                          !.in_pattern = IF drop_p THEN FALSE ELSE @]]
    IN IF ~meta.present \/ ~meta.inherited
       THEN <<m, rest>>
       ELSE <<Unset(m), rest \o Again(drop_u) \o Again(drop_f) \o Again(drop_p)>>

\* Fourth loop: the iterations until the worklist is empty.
RECURSIVE PropagateForwards(_, _, _)
PropagateForwards(m, reg, todo) ==
    LET Next(r) == PropagateForwards(r[1], reg, r[2])
    IN IF todo = <<>> THEN m ELSE Next(PopForwards(m, reg, todo))

\* propagate_register_meta
PropagateRegisterMeta(m, reg) ==
    LET Forwards(m3) == PropagateForwards(m3, reg, NonTerminal(m3.graph))
        Backwards(m1) == PropagateIsRead(m1, reg, NonTerminal(m1.graph))
    IN Forwards(AssumeInherited(Backwards(SetReadFromInherited(m, reg)), reg))

\* ------------------------------------------------------------------------
\* determine_return_register and the return values
\* ------------------------------------------------------------------------

\* The ReturnNodes whose block info translate_all_blocks collected, in the
\* order of their translation: a ReturnNode has the terminal node as its
\* only successor, so it is no ConditionalNode and no parent of a node.
ReturnBlocks(m) ==
    SelectSeq(m.order,
              LAMBDA n : /\ n \notin m.graph.conditional
                         /\ \A c \in Nodes(m.graph) :
                               \A i \in DOMAIN m.graph.parents[c] :
                                   m.graph.parents[c][i] # n)

\* priority of determine_return_register
Priority(m, n, reg) ==
    LET meta == FinalMeta(m, n, reg) IN
    IF ~meta.present THEN 4
    ELSE IF meta.uninteresting THEN 2
    ELSE IF meta.in_pattern THEN 1
    ELSE IF meta.function_return THEN 0
    ELSE 3

\* The largest element of a non-empty set of numbers.
Max(set) == CHOOSE x \in set : \A y \in set : y <= x

\* A determine_return_register that takes every function for void.
DetermineReturnRegisterVoid(m, fn_decl_provided) == ""

\* determine_return_register ("" stands for None): the loop over
\* arch.base_return_regs, from the i-th register on.
RECURSIVE BestReg(_, _, _, _, _)
BestReg(m, fn_decl_provided, i, best_reg, best_prio) ==
    IF i > Len(BaseReturnRegs) THEN best_reg
    ELSE LET reg == BaseReturnRegs[i]
             blocks == ReturnBlocks(m)
             max_prio == Max({Priority(m, blocks[k], reg) : k \in DOMAIN blocks})
         IN IF max_prio = 4 THEN BestReg(m, fn_decl_provided, i + 1, best_reg, best_prio)
            ELSE IF max_prio <= 2 /\ ~fn_decl_provided
            THEN BestReg(m, fn_decl_provided, i + 1, best_reg, best_prio)
            ELSE IF max_prio > best_prio
            THEN BestReg(m, fn_decl_provided, i + 1, reg, max_prio)
            ELSE BestReg(m, fn_decl_provided, i + 1, best_reg, best_prio)

DetermineReturnRegister(m, fn_decl_provided) ==
    IF ReturnBlocks(m) = <<>> THEN ""
    ELSE BestReg(m, fn_decl_provided, 1, "", 0 - 1)

\* The loop of translate_to_ast over the return blocks, from the i-th one
\* on: the value of the return register is read from the final register
\* state of the block (as_type leaves a value of unknown type as it is),
\* used, and made the return_value of the block.
RECURSIVE SetReturnValues(_, _, _)
SetReturnValues(m, return_reg, i) ==
    LET blocks == ReturnBlocks(m)
        b == blocks[i]
        Enter(m0) == [m0 EXCEPT !.regs = m0.block_info[b].final_register_states,
                                !.read_inherited = m0.block_info[b].read_inherited,
                                !.active_instr = NoInstr]
        Leave(m2) == [m2 EXCEPT !.block_info[b].final_register_states = m2.regs,
                                !.block_info[b].read_inherited = m2.read_inherited,
                                !.block_info[b].return_value = m2.ret,
                                !.regs = m.regs,
                                !.read_inherited = m.read_inherited,
                                !.active_instr = m.active_instr]
        Value(m1) == LET got == RegInfoGetItem(m1, return_reg)
                     IN [Use(got, got.ret) EXCEPT !.ret = got.ret]
    IN IF i > Len(blocks) THEN m
       ELSE IF ~FinalMeta(m, b, return_reg).present
       THEN SetReturnValues(m, return_reg, i + 1)
       ELSE SetReturnValues(Leave(Value(Enter(m))), return_reg, i + 1)

\* translate_to_ast between propagate_register_meta and the guess of the
\* parameters, for a function that is not declared void.
ReturnValues(m, fn_decl_provided) ==
    LET return_reg == DetermineReturnRegister(m, fn_decl_provided) IN
    IF return_reg = "" THEN m ELSE SetReturnValues(m, return_reg, 1)

\* ------------------------------------------------------------------------
\* assign_naive_phis
\* ------------------------------------------------------------------------

\* final_register_states[reg] of the block info of a node: RegInfo.__getitem__
\* on the registers the node ended with.
ReadFinal(m, node, reg) ==
    LET Back(m1) ==
            [m1 EXCEPT !.block_info[node].final_register_states = m1.regs,
                       !.regs = m.regs, !.read_inherited = m.read_inherited]
    IN Back(ReadReg([m EXCEPT !.regs = m.block_info[node].final_register_states], reg))

\* The node whose final state gives the value of a source (None, written 0,
\* is the entry node).
SourceNode(g, source) == IF source = 0 THEN 1 ELSE InstrNode(g, source)

\* equivalent_nodes[key].append(node): groups is the dict in insertion order.
AddToGroup(m, groups, key, node) ==
    IF \E j \in 1..Len(groups) : ExprEq(m, groups[j].key, key)
    THEN [j \in 1..Len(groups) |->
             IF ExprEq(m, groups[j].key, key)
             THEN [groups[j] EXCEPT !.nodes = Append(@, node)]
             ELSE groups[j]]
    ELSE Append(groups, [key |-> key, nodes |-> <<node>>])

\* The loop that groups the sources of a phi by the value of its register,
\* from the i-th source on; the dict is left in the groups field.
RECURSIVE GroupSources(_, _, _)
GroupSources(m, phi, i) ==
    LET node == SourceNode(m.graph, m.exprs[phi].sources[i])
        Add(m1) == [m1 EXCEPT !.groups =
                       AddToGroup(m1, @, TransparentUnwrap(m1, m1.ret), node)]
    IN IF i > Len(m.exprs[phi].sources) THEN m
       ELSE GroupSources(Add(ReadFinal(m, node, m.exprs[phi].reg)), phi, i + 1)

\* for _ in range(n): expr.use()
RECURSIVE UseTimes(_, _, _)
UseTimes(m, e, n) == IF n = 0 THEN m ELSE UseTimes(Use(m, e), e, n - 1)

\* A variant of the branch that records every replaced phi as inheritable
\* from the dominator.
ReplacePhiAlwaysInherited(m, phi) ==
    LET phi_expr == IF Len(m.groups) = 1 THEN m.groups[1].key
                    ELSE EarlyUnwrap(m, m.groups[1].key)
        Plan(m1) == [m1 EXCEPT !.planned_inherited_phis =
                        @ \cup {<<m1.exprs[phi].reg, m1.exprs[phi].node>>}]
    IN Plan(UseTimes([m EXCEPT !.exprs[phi].replacement_expr = phi_expr],
                     phi_expr, m.exprs[phi].num_usages))

\* A variant of the branch that does not replay the uses the phi received
\* before it was resolved.
ReplacePhiWithoutReplay(m, phi) ==
    LET phi_expr == IF Len(m.groups) = 1 THEN m.groups[1].key
                    ELSE EarlyUnwrap(m, m.groups[1].key)
        Plan(m1) == IF m1.exprs[phi].uses_dominator /\ Len(m1.groups) = 1
                    THEN [m1 EXCEPT !.planned_inherited_phis =
                             @ \cup {<<m1.exprs[phi].reg, m1.exprs[phi].node>>}]
                    ELSE m1
    IN Plan([m EXCEPT !.exprs[phi].replacement_expr = phi_expr])

\* The branch of assign_naive_phis taken when all sources carry the same
\* value.  Types always unify, so as_type returns its argument.
ReplacePhi(m, phi) ==
    LET phi_expr == IF Len(m.groups) = 1 THEN m.groups[1].key
                    ELSE EarlyUnwrap(m, m.groups[1].key)
        Plan(m1) == IF m1.exprs[phi].uses_dominator /\ Len(m1.groups) = 1
                    THEN [m1 EXCEPT !.planned_inherited_phis =
                             @ \cup {<<m1.exprs[phi].reg, m1.exprs[phi].node>>}]
                    ELSE m1
    IN Plan(UseTimes([m EXCEPT !.exprs[phi].replacement_expr = phi_expr],
                     phi_expr, m.exprs[phi].num_usages))

\* The nodes of the dict in the order the else branch goes through them.
RECURSIVE GroupNodes(_, _)
GroupNodes(groups, j) ==
    IF j > Len(groups) THEN <<>> ELSE groups[j].nodes \o GroupNodes(groups, j + 1)

\* The else branch of assign_naive_phis: every source node, from the i-th
\* on, gets a SetNaivePhiStmt.
RECURSIVE SetPhi(_, _, _, _)
SetPhi(m, phi, nodes, i) ==
    LET Write(m1) == [m1 EXCEPT !.block_info[nodes[i]].to_write =
                         Append(@, MkStmt("SetNaivePhiStmt", m1.ret, phi))]
        Used(m2) == [Use(m2, m2.ret) EXCEPT !.ret = m2.ret]
    IN IF i > Len(nodes) THEN m
       ELSE SetPhi(Write(Used(ReadFinal(m, nodes[i], m.exprs[phi].reg))),
                   phi, nodes, i + 1)

\* A variant of the loop body that takes two values for the same only when
\* they are the same object.
ResolvePhiByIdentity(m, phi) ==
    LET Same(m1) ==
            \A j \in 2..Len(m1.groups) :
                EarlyUnwrap(m1, m1.groups[j].key) = EarlyUnwrap(m1, m1.groups[1].key)
        Decide(m1) ==
            IF Same(m1) THEN ReplacePhi(m1, phi)
            ELSE SetPhi(m1, phi, GroupNodes(m1.groups, 1), 1)
    IN Decide(GroupSources([m EXCEPT !.groups = <<>>], phi, 1))

\* The body of the while loop of assign_naive_phis for one used phi.
ResolvePhi(m, phi) ==
    LET Same(m1) ==
            \A j \in 2..Len(m1.groups) :
                ExprEq(m1, EarlyUnwrap(m1, m1.groups[j].key),
                       EarlyUnwrap(m1, m1.groups[1].key))
        Decide(m1) ==
            IF Same(m1) THEN ReplacePhi(m1, phi)
            ELSE SetPhi(m1, phi, GroupNodes(m1.groups, 1), 1)
    IN Decide(GroupSources([m EXCEPT !.groups = <<>>], phi, 1))

\* The while loop of assign_naive_phis, from the i-th used phi on.
RECURSIVE ResolvePhis(_, _)
ResolvePhis(m, i) ==
    IF i > Len(m.used_naive_phis) THEN m
    ELSE ResolvePhis(ResolvePhi(m, m.used_naive_phis[i]), i + 1)

\* The joins of the PlannedVars of the sources of a phi with the one of its
\* first source, from the i-th source on.
RECURSIVE JoinSources(_, _, _, _)
JoinSources(pv, reg, sources, i) ==
    IF i > Len(sources) THEN pv
    ELSE JoinSources(Join(GetPersistentPlannedVar(pv, <<reg, sources[i]>>),
                          <<reg, sources[i]>>, <<reg, sources[1]>>),
                     reg, sources, i + 1)

\* The final loop of assign_naive_phis, from the i-th used phi on: a phi
\* without replacement gets a name and its sources' PlannedVars are merged.
RECURSIVE NamePhis(_, _)
NamePhis(m, i) ==
    LET phi == m.used_naive_phis[i]
        Name(m1) ==
            [m1 EXCEPT !.exprs[phi].named = TRUE,
                       !.persistent_planned_vars =
                           JoinSources(GetPersistentPlannedVar(
                                           @, <<m1.exprs[phi].reg, m1.exprs[phi].sources[1]>>),
                                       m1.exprs[phi].reg, m1.exprs[phi].sources, 2)]
    IN IF i > Len(m.used_naive_phis) THEN m
       ELSE IF m.exprs[phi].replacement_expr = 0
       THEN NamePhis(Name(m), i + 1)
       ELSE NamePhis(m, i + 1)

\* assign_naive_phis
AssignNaivePhis(m) == NamePhis(ResolvePhis(m, 1), 1)

\* setup_planned_vars: one Var per group of PlannedVars with the same
\* representative, given to every key of the group.
RECURSIVE PlanVars(_, _)
PlanVars(m, roots) ==
    LET root == CHOOSE k \in roots : TRUE
        Give(m1) ==
            [m1 EXCEPT !.planned_vars =
                @ \cup {[reg |-> k[1], source |-> k[2], var |-> LastVar(m1)] :
                           k \in {x \in DOMAIN m1.persistent_planned_vars :
                                     Representative(m1.persistent_planned_vars, x) = root}}]
    IN IF roots = {} THEN m
       ELSE PlanVars(Give(AllocVar(m)), roots \ {root})

SetupPlannedVars(m) ==
    LET Compressed(m1) ==
            [m1 EXCEPT !.persistent_planned_vars =
                [k \in DOMAIN @ |-> IF @[k] = NoParent THEN NoParent
                                    ELSE Representative(@, k)]]
    IN Compressed(PlanVars(m, {k \in DOMAIN m.persistent_planned_vars :
                                  m.persistent_planned_vars[k] = NoParent}))

\* ------------------------------------------------------------------------
\* StackInfo: the layout of the stack frame
\* ------------------------------------------------------------------------

\* What get_stack_info looks at in a function: the architecture, the size
\* by which the entry block moves the stack pointer, the stack offsets at
\* which the entry block saves callee-saved registers (in instruction
\* order), whether the return address is saved (mflr on PPC), the offsets of
\* the loads from the stack and the offsets of the stack addresses computed
\* in the function.
MkFunction(arch, frame, saved, link_saved, loads, addrs) ==
    [arch |-> arch, frame |-> frame, saved |-> saved, link_saved |-> link_saved,
     loads |-> loads, addrs |-> addrs]

\* A StackInfo as its constructor leaves it; raised is the exception
\* get_stack_info ended with ("" for none, "none" before it has run).
NoStackInfo ==
    [function |-> MkFunction("mips", 0, <<>>, FALSE, {}, {}),
     allocated_stack_size |-> 0, is_leaf |-> TRUE, subroutine_arg_top |-> 0,
     callee_save_reg_region |-> <<0, 0>>, raised |-> "none"]

\* No get_stack_var call yet.
NoStackVar == [location |-> 0 - 1, kind |-> ""]

\* list.sort() on a list of offsets.
RECURSIVE SortOffsets(_)
SortOffsets(offsets) ==
    LET RECURSIVE Insert(_, _)
        Insert(x, sorted) ==
            IF sorted = <<>> THEN <<x>>
            ELSE IF x <= Head(sorted) THEN <<x>> \o sorted
            ELSE <<Head(sorted)>> \o Insert(x, Tail(sorted))
    IN IF offsets = <<>> THEN <<>>
       ELSE Insert(Head(offsets), SortOffsets(Tail(offsets)))

\* A variant of the loop over the sorted offsets that accepts a 4-byte gap
\* wherever it finds one.
RECURSIVE CalleeSaveRegRegionAnyGaps(_, _, _, _)
CalleeSaveRegRegionAnyGaps(offsets, i, top, internal_padding_added) ==
    IF i > Len(offsets) THEN [ok |-> TRUE, top |-> top]
    ELSE IF offsets[i] # top
    THEN IF offsets[i] = top + 4
         THEN CalleeSaveRegRegionAnyGaps(offsets, i + 1, offsets[i] + 4, TRUE)
         ELSE [ok |-> FALSE, top |-> top]
    ELSE CalleeSaveRegRegionAnyGaps(offsets, i + 1, offsets[i] + 4,
                                    internal_padding_added)

\* The loop of get_stack_info over the sorted offsets, from the i-th one on:
\* the top of the region, or the failure at a gap.
RECURSIVE CalleeSaveRegRegion(_, _, _, _)
CalleeSaveRegRegion(offsets, i, top, internal_padding_added) ==
    IF i > Len(offsets) THEN [ok |-> TRUE, top |-> top]
    ELSE IF offsets[i] # top
    THEN IF ~internal_padding_added /\ offsets[i] = top + 4
         THEN CalleeSaveRegRegion(offsets, i + 1, offsets[i] + 4, TRUE)
         ELSE [ok |-> FALSE, top |-> top]
    ELSE CalleeSaveRegRegion(offsets, i + 1, offsets[i] + 4, internal_padding_added)

Min(a, b) == IF a <= b THEN a ELSE b

RECURSIVE MinOf(_, _)
MinOf(a, set) ==
    IF set = {} THEN a
    ELSE LET x == CHOOSE y \in set : TRUE IN MinOf(Min(a, x), set \ {x})

\* The scan of the whole function for the boundary of the subroutine
\* argument region: the lowest stack load at 16 or above and the lowest
\* stack address below the frame size (addiu, MIPS only).
ScanSubroutineArgTop(function) ==
    MinOf(function.frame,
          {o \in function.loads : o >= 16} \cup
          (IF function.arch = "mips"
           THEN {v \in function.addrs : v < function.frame}
           ELSE {}))

\* A variant of the last step of get_stack_info that leaves
\* subroutine_arg_top where the scan put it.
BelowCalleeSaveRegionUnbounded(subroutine_arg_top, bottom) == subroutine_arg_top

\* "Subroutine arguments must be at the very bottom of the stack, so they
\* must come after the callee-saved region".
BelowCalleeSaveRegion(subroutine_arg_top, bottom) == Min(subroutine_arg_top, bottom)

\* get_stack_info
GetStackInfo(function) ==
    LET is_leaf == ~function.link_saved
        scanned == IF is_leaf THEN 0 ELSE ScanSubroutineArgTop(function)
        sorted == SortOffsets(function.saved)
        Info(region, top) ==
            [function |-> function, allocated_stack_size |-> function.frame,
             is_leaf |-> is_leaf, subroutine_arg_top |-> top,
             callee_save_reg_region |-> region, raised |-> ""]
        Region(r) ==
            IF ~r.ok
            THEN [Info(<<0, 0>>, scanned) EXCEPT !.raised = "DecompFailure"]
            ELSE Info(<<sorted[1], r.top>>, BelowCalleeSaveRegion(scanned, sorted[1]))
    IN IF sorted = <<>> THEN Info(<<0, 0>>, scanned)
       ELSE Region(CalleeSaveRegRegion(sorted, 1, sorted[1], FALSE))

\* StackInfo.in_subroutine_arg_region
InSubroutineArgRegion(info, location) ==
    IF info.function.arch = "ppc" THEN FALSE
    ELSE IF info.is_leaf THEN FALSE
    ELSE location < info.subroutine_arg_top

\* StackInfo.in_callee_save_reg_region
InCalleeSaveRegRegion(info, location) ==
    \/ /\ info.callee_save_reg_region[1] <= location
       /\ location < info.callee_save_reg_region[2]
    \/ /\ info.function.arch = "ppc"
       /\ location = info.allocated_stack_size + 4

\* StackInfo.location_above_stack
LocationAboveStack(info, location) == location >= info.allocated_stack_size

\* StackInfo.get_stack_var: the kind of expression it returns.
GetStackVar(info, location) ==
    IF InCalleeSaveRegRegion(info, location) THEN "callee-saved"
    ELSE IF LocationAboveStack(info, location) THEN "caller-argument"
    ELSE IF InSubroutineArgRegion(info, location) THEN "subroutine-argument"
    ELSE "local"

\* ------------------------------------------------------------------------
\* StackInfo.temp_var and Var.format: the names of the variables
\* ------------------------------------------------------------------------

\* A string is modelled as the sequence of its parts between underscores:
\* <<"temp", "v0", "2">> is temp_v0_2.

\* The decimal text of a number (f"{counter}", f"{lineno}").
Decimal(n) == <<"1", "2", "3", "4", "5", "6", "7", "8", "9">>[n]

\* The prefix _eval_once gives the Var of a register: temp_<reg>, followed
\* by the line number with deterministic_vars.
TempPrefix(reg, deterministic_vars, lineno) ==
    <<"temp", reg>> \o (IF deterministic_vars THEN <<Decimal(lineno)>> ELSE <<>>)

\* The prefix assign_naive_phis gives a phi: phi_<reg>, followed by the
\* index of the block with deterministic_vars.
PhiPrefix(reg, deterministic_vars, index) ==
    <<"phi", reg>> \o (IF deterministic_vars THEN <<Decimal(index)>> ELSE <<>>)

\* The Var object of the constructor's defaults.
MkVar(prefix) == [kind |-> "Var", prefix |-> prefix, is_emitted |-> FALSE, name |-> <<>>]

\* A NaivePhiExpr that assign_naive_phis named.
MkPhi(prefix, name) ==
    [kind |-> "NaivePhiExpr", prefix |-> prefix, is_emitted |-> FALSE, name |-> name]

\* temp_name_counter.get(prefix, 0)
CounterGet(counter, prefix) == IF prefix \in DOMAIN counter THEN counter[prefix] ELSE 0

\* The per-prefix counter forgotten: every request counts as the first.
TempVarUncounted(counter, prefix) ==
    [counter |-> counter, name |-> prefix]

\* StackInfo.temp_var: the new counter and the name returned.
TempVar(counter, prefix) ==
    LET n == CounterGet(counter, prefix) + 1 IN
    [counter |-> [p \in DOMAIN counter \cup {prefix} |->
                     IF p = prefix THEN n ELSE counter[p]],
     name |-> prefix \o (IF n > 1 THEN <<Decimal(n)>> ELSE <<>>)]

\* Var.format: the Var after the call (its name is what the call returns)
\* and the counter.
VarFormat(counter, var) ==
    IF var.name = <<>>
    THEN LET t == TempVar(counter, var.prefix) IN
         [counter |-> t.counter, var |-> [var EXCEPT !.name = t.name]]
    ELSE [counter |-> counter, var |-> var]

\* ------------------------------------------------------------------------
\* rlwi_mask and handle_rlwinm on a Literal
\* ------------------------------------------------------------------------

\* Width of a PPC register.
WordBits == 32

\* A 32-bit word is the function from its bit positions to its bits;
\* position 0 is the least significant bit, which the processor manual
\* numbers 31.
Positions == 0..(WordBits - 1)

\* A Python integer v with -2^31 <= v < 2^31: the low 32 bits of its two's
\* complement form and the bit that fills all the higher positions.
PyInt(v) ==
    [bits |-> [i \in Positions |->
                  IF i = WordBits - 1 THEN (IF v < 0 THEN 1 ELSE 0)
                  ELSE (v \div (2 ^ i)) % 2],
     ext |-> IF v < 0 THEN 1 ELSE 0]

\* 0xFFFFFFFF
AllOnes == [i \in Positions |-> 1]

\* bits_upto(m) = (1 << (32 - m)) - 1, for m in 0..32
BitsUpto(m) == [i \in Positions |-> IF i < WordBits - m THEN 1 ELSE 0]

\* a - b on 32-bit words, bit by bit from position i on with a borrow.
RECURSIVE Subtract(_, _, _, _)
Subtract(a, b, i, borrow) ==
    IF i = WordBits THEN <<>>
    ELSE LET d == a[i] - b[i] - borrow
         IN <<d % 2>> \o Subtract(a, b, i + 1, IF d < 0 THEN 1 ELSE 0)

Minus(a, b) == [i \in Positions |-> Subtract(a, b, 0, 0)[i + 1]]

BitXor(a, b) == [i \in Positions |-> (a[i] + b[i]) % 2]

BitAnd(a, b) == [i \in Positions |-> a[i] * b[i]]

BitOr(a, b) == [i \in Positions |-> IF a[i] + b[i] > 0 THEN 1 ELSE 0]

\* The low 32 bits of x << n, for a Python integer x.
ShiftLeft(x, n) == [i \in Positions |-> IF i >= n THEN x.bits[i - n] ELSE 0]

\* The low 32 bits of x >> n, for a Python integer x: the shift is
\* arithmetic, the positions from 32 on hold the sign.
ShiftRight(x, n) ==
    [i \in Positions |-> IF i + n < WordBits THEN x.bits[i + n] ELSE x.ext]

\* rlwi_mask
RlwiMask(mask_begin, mask_end) ==
    IF mask_begin <= mask_end
    THEN Minus(BitsUpto(mask_begin), BitsUpto(mask_end + 1))
    ELSE BitXor(Minus(BitsUpto(mask_end + 1), BitsUpto(mask_begin)), AllOnes)

\* handle_rlwinm on Literal(value): the value of the Literal returned.
HandleRlwinm(value, shift, mask_begin, mask_end) ==
    LET mask == RlwiMask(mask_begin, mask_end)
        left_shift == shift
        right_shift == WordBits - shift
        upper_value == BitAnd(ShiftLeft(PyInt(value), left_shift), mask)
        lower_value == BitAnd(ShiftRight(PyInt(value), right_shift), mask)
    IN BitOr(upper_value, lower_value)

\* ------------------------------------------------------------------------
\* fold_divmod
\* ------------------------------------------------------------------------

\* Python's integers are unbounded and the constants of a division reach
\* 2^42: a natural number is the sequence of its digits to the base 2^15,
\* the least significant first, without leading zeros.
Base == 2 ^ 15

\* b without its leading zeros
Normal(b) ==
    SubSeq(b, 1, Len(b) - (CHOOSE z \in 0..Len(b) :
                              /\ z = Len(b) \/ b[Len(b) - z] # 0
                              /\ \A k \in (Len(b) - z + 1)..Len(b) : b[k] = 0))

\* The digits of n, for 0 <= n < 2^31.
Long(n) == Normal(<<n % Base, (n \div Base) % Base, n \div (Base * Base)>>)

\* The digit i of b, the least significant being digit 1.
Digit(b, i) == IF i <= Len(b) THEN b[i] ELSE 0

\* The number that at most two digits stand for.
Short(b) == Digit(b, 1) + Base * Digit(b, 2)

\* n.bit_length(), for 0 <= n < 2^31
DigitLength(n) == Cardinality({k \in 0..30 : 2 ^ k <= n})

\* b.bit_length()
BitLength(b) ==
    IF b = <<>> THEN 0 ELSE 15 * (Len(b) - 1) + DigitLength(b[Len(b)])

\* b is odd
Odd(b) == Digit(b, 1) % 2 = 1

\* 1 << k
Power2(k) ==
    [i \in 1..(k \div 15 + 1) |-> IF i = k \div 15 + 1 THEN 2 ^ (k % 15) ELSE 0]

\* a < b
Less(a, b) ==
    IF Len(a) # Len(b) THEN Len(a) < Len(b)
    ELSE \E i \in 1..Len(a) :
             a[i] < b[i] /\ \A k \in (i + 1)..Len(a) : a[k] = b[k]

\* a <= b
LessEq(a, b) == ~Less(b, a)

\* The digits of a + b from digit i up, carry coming in.
RECURSIVE AddFrom(_, _, _, _)
RECURSIVE AddNext(_, _, _, _)
AddFrom(a, b, i, carry) ==
    IF i > Len(a) /\ i > Len(b) THEN (IF carry = 0 THEN <<>> ELSE <<carry>>)
    ELSE AddNext(a, b, i, Digit(a, i) + Digit(b, i) + carry)

AddNext(a, b, i, sum) == <<sum % Base>> \o AddFrom(a, b, i + 1, sum \div Base)

\* a + b
Plus(a, b) == AddFrom(a, b, 1, 0)

\* The digits of a - b from digit i up, borrow taken out.
RECURSIVE SubFrom(_, _, _, _)
RECURSIVE SubNext(_, _, _, _)
SubFrom(a, b, i, borrow) ==
    IF i > Len(a) THEN <<>>
    ELSE SubNext(a, b, i, a[i] - Digit(b, i) - borrow)

SubNext(a, b, i, diff) ==
    <<diff % Base>> \o SubFrom(a, b, i + 1, IF diff < 0 THEN 1 ELSE 0)

\* a - b, for b <= a
Difference(a, b) == Normal(SubFrom(a, b, 1, 0))

\* The digits of b * m from digit i up, for the digit m, carry coming in.
RECURSIVE ScaleFrom(_, _, _, _)
RECURSIVE ScaleNext(_, _, _, _)
ScaleFrom(b, m, i, carry) ==
    IF i > Len(b) THEN (IF carry = 0 THEN <<>> ELSE <<carry>>)
    ELSE ScaleNext(b, m, i, b[i] * m + carry)

ScaleNext(b, m, i, product) ==
    <<product % Base>> \o ScaleFrom(b, m, i + 1, product \div Base)

\* b * m, for the digit m
Scale(b, m) == IF m = 0 THEN <<>> ELSE ScaleFrom(b, m, 1, 0)

\* b with k digits of zero put under it
ShiftDigits(b, k) == IF b = <<>> THEN <<>> ELSE [i \in 1..k |-> 0] \o b

\* b << k
ShiftBy(b, k) == ShiftDigits(Scale(b, 2 ^ (k % 15)), k \div 15)

\* b times the digits of a from digit i up
RECURSIVE TimesFrom(_, _, _)
TimesFrom(a, b, i) ==
    IF i > Len(a) THEN <<>>
    ELSE Plus(ShiftDigits(Scale(b, a[i]), i - 1), TimesFrom(a, b, i + 1))

\* a * b
Times(a, b) == TimesFrom(a, b, 1)

\* The division of x by the digit y > 0, digit by digit from digit i down:
\* r is the remainder of the digits above i.
DivShortJoin(digit, lower) == [q |-> lower.q \o <<digit>>, r |-> lower.r]

RECURSIVE DivShortFrom(_, _, _, _)
RECURSIVE DivShortNext(_, _, _, _)
DivShortFrom(x, y, i, r) ==
    IF i = 0 THEN [q |-> <<>>, r |-> Long(r)]
    ELSE DivShortNext(x, y, i, r * Base + x[i])

DivShortNext(x, y, i, part) ==
    DivShortJoin(part \div y, DivShortFrom(x, y, i - 1, part % y))

DivShort(division) == [q |-> Normal(division.q), r |-> division.r]

\* b // 2
Half(b) == DivShort(DivShortFrom(b, 2, Len(b), 0)).q

\* The division of r by y > 0, the quotient below 2^(k+1): y << k is taken
\* off where it can be, for k down to 0.
DivLongJoin(k, lower) ==
    [r |-> lower.r,
     q |-> [i \in 1..(k \div 15 + 1) |->
               Digit(lower.q, i)
               + (IF i = k \div 15 + 1 THEN 2 ^ (k % 15) ELSE 0)]]

RECURSIVE DivLongFrom(_, _, _)
RECURSIVE DivLongNext(_, _, _, _)
DivLongFrom(y, k, r) ==
    IF k < 0 THEN [q |-> <<>>, r |-> r]
    ELSE DivLongNext(y, k, r, ShiftBy(y, k))

DivLongNext(y, k, r, part) ==
    IF LessEq(part, r)
    THEN DivLongJoin(k, DivLongFrom(y, k - 1, Difference(r, part)))
    ELSE DivLongFrom(y, k - 1, r)

\* x // y and x % y, for y > 0
DivMod(x, y) ==
    IF Len(y) = 1 THEN DivShort(DivShortFrom(x, y[1], Len(x), 0))
    ELSE DivLongFrom(y, BitLength(x) - BitLength(y), x)

\* The expressions fold_divmod looks at. A BinaryOp is equal to itself only
\* (eq=False): it carries its identity. Literal, PassedInArg and Cast are
\* compared by their fields, types left out.
MkLiteral(value) == [kind |-> "Literal", value |-> value, negative |-> FALSE]

MkArg(value) == [kind |-> "PassedInArg", value |-> value]

MkIntCast(expr) == [kind |-> "Cast", expr |-> expr, reinterpret |-> TRUE]

MkBinaryOp(left, op, right, id) ==
    [kind |-> "BinaryOp", left |-> left, op |-> op, right |-> right, id |-> id]

IsBinaryOp(expr) == expr.kind = "BinaryOp"

IsLiteral(expr) == expr.kind = "Literal"

\* Literal(-expr.value)
Negated(expr) ==
    [expr EXCEPT !.negative = IF expr.value = <<>> THEN FALSE ELSE ~expr.negative]

\* expr.value <= bound and expr.value >= bound, for a Literal and a bound >= 0
ValueAtMost(expr, bound) == expr.negative \/ LessEq(expr.value, bound)

ValueAtLeast(expr, bound) ==
    IF expr.negative THEN bound = <<>> ELSE LessEq(bound, expr.value)

\* early_unwrap_ints: through the reinterpreting casts to integer types (the
\* expressions here hold no EvalOnceExpr)
RECURSIVE EarlyUnwrapInts(_)
EarlyUnwrapInts(expr) ==
    IF expr.kind = "Cast" /\ expr.reinterpret THEN EarlyUnwrapInts(expr.expr)
    ELSE expr

MultHighOps == {"MULT_HI", "MULTU_HI"}

PossibleMatchOps == MultHighOps \cup {"-", "+", ">>"}

NoQuotient == [ok |-> FALSE, value |-> <<>>]

\* round(x / y): the quotient rounded to the nearest integer, to the even one
\* of two equally near (the quotients are floats in the code and exact here)
RoundedFrom(q, twice, y) ==
    IF Less(y, twice) \/ (twice = y /\ Odd(q)) THEN Plus(q, <<1>>) ELSE q

RoundedOf(division, y) ==
    RoundedFrom(division.q, ShiftBy(division.r, 1), y)

Rounded(x, y) == RoundedOf(DivMod(x, y), y)

\* round_div that takes the quotient rounded down
RoundDivDown(x, y) ==
    IF y.negative \/ LessEq(y.value, <<1>>) THEN NoQuotient
    ELSE [ok |-> TRUE, value |-> DivMod(x, y.value).q]

\* The rounded quotient, if x lies between result * (y - 1) and
\* result * (y + 1).
RoundDivOf(x, y, result) ==
    IF /\ LessEq(x, Times(result, Plus(y.value, <<1>>)))
       /\ LessEq(Times(result, Difference(y.value, <<1>>)), x)
    THEN [ok |-> TRUE, value |-> result]
    ELSE NoQuotient

\* round_div(x, y) for x >= 0 and the Literal y: None, or the result
RoundDiv(x, y) ==
    IF y.negative \/ LessEq(y.value, <<1>>) THEN NoQuotient
    ELSE RoundDivOf(x, y, Rounded(x, y.value))

\* fold_divmod from "Shift on the result of the mul" on
FoldMultHigh(original_expr, expr0, left0, right0, id) ==
    LET shifted == IsBinaryOp(left0) /\ expr0.op = ">>" /\ IsLiteral(right0)
        shift1 == IF shifted THEN Short(right0.value) ELSE 0
        expr1 == IF shifted THEN left0 ELSE expr0
        l1 == IF shifted THEN EarlyUnwrapInts(expr1.left) ELSE left0
        r1 == IF shifted THEN EarlyUnwrapInts(expr1.right) ELSE right0
        swap == shifted /\ IsLiteral(l1) /\ ~IsLiteral(r1)
        left1 == IF swap THEN r1 ELSE l1
        right1 == IF swap THEN l1 ELSE r1
        inner == /\ shifted
                 /\ IsBinaryOp(left1)
                 /\ left1.op = "MULT_HI"
                 /\ expr1.op = "+"
                 /\ EarlyUnwrapInts(left1.left) = right1
        expr2 == IF inner THEN left1 ELSE expr1
        left2 == IF inner THEN EarlyUnwrapInts(expr2.left) ELSE left1
        right2 == IF inner THEN EarlyUnwrapInts(expr2.right) ELSE right1
        lhs == /\ expr2.op \in MultHighOps
               /\ IsBinaryOp(left2)
               /\ left2.op = ">>"
               /\ IsLiteral(left2.right)
        divisor_shift == shift1 + (IF lhs THEN Short(left2.right.value) ELSE 0)
        left3 == IF lhs THEN EarlyUnwrapInts(left2.left) ELSE left2
        denom == RoundDiv(Power2(32 + divisor_shift), right2)
    IN IF expr2.op \in MultHighOps /\ IsLiteral(right2) /\ denom.ok
       THEN MkBinaryOp(left3, "/", MkLiteral(denom.value), id)
       ELSE original_expr

\* fold_divmod from "Remove outer error term" on
FoldErrorTerm(original_expr, expr, left_expr, right_expr, id) ==
    LET shift_var_expr == EarlyUnwrapInts(right_expr.left)
        div_var_expr == EarlyUnwrapInts(left_expr.left)
        minus == /\ expr.op = "-"
                 /\ IsBinaryOp(left_expr)
                 /\ left_expr.op = "/"
                 /\ IsLiteral(left_expr.right)
                 /\ IsBinaryOp(right_expr)
                 /\ right_expr.op = ">>"
                 /\ EarlyUnwrapInts(right_expr.right) = MkLiteral(Long(31))
    IN IF /\ expr.op = "+"
          /\ IsBinaryOp(left_expr)
          /\ left_expr.op = "/"
          /\ IsLiteral(left_expr.right)
          /\ ValueAtMost(left_expr.right, Power2(29))
          /\ IsBinaryOp(right_expr)
          /\ EarlyUnwrapInts(right_expr.left) = left_expr
          /\ right_expr.op = ">>"
          /\ EarlyUnwrapInts(right_expr.right) = MkLiteral(Long(31))
       THEN left_expr
       ELSE IF minus /\ div_var_expr = shift_var_expr
       THEN (IF ValueAtLeast(left_expr.right, Power2(30))
             THEN MkBinaryOp(left_expr.left, left_expr.op, left_expr.right, id)
             ELSE left_expr)
       ELSE IF /\ minus
               /\ IsBinaryOp(shift_var_expr)
               /\ div_var_expr = EarlyUnwrapInts(shift_var_expr.left)
               /\ shift_var_expr.op = "<<"
               /\ IsLiteral(shift_var_expr.right)
       THEN left_expr
       ELSE FoldMultHigh(original_expr, expr, left_expr, right_expr, id)

\* fold_divmod from "Detect %" on
FoldModulo(original_expr, left_expr, right_expr, id) ==
    LET expr == original_expr
        div_expr == EarlyUnwrapInts(right_expr.left)
        mod_base == EarlyUnwrapInts(right_expr.right)
        divisor == EarlyUnwrapInts(div_expr.right)
    IN IF /\ expr.op = "-"
          /\ IsBinaryOp(right_expr)
          /\ right_expr.op = "*"
          /\ IsBinaryOp(div_expr)
          /\ EarlyUnwrapInts(div_expr.left) = left_expr
          /\ \/ div_expr.op = "/" /\ divisor = mod_base
             \/ /\ div_expr.op = ">>"
                /\ IsLiteral(divisor)
                /\ IsLiteral(mod_base)
                /\ ~divisor.negative
                /\ MkLiteral(Power2(Short(divisor.value))) = mod_base
       THEN MkBinaryOp(left_expr, "%", right_expr.right, id)
       ELSE IF /\ expr.op = "-"
               /\ IsBinaryOp(left_expr)
               /\ left_expr.op = ">>"
               /\ EarlyUnwrapInts(left_expr.right) = MkLiteral(Long(31))
               /\ IsBinaryOp(right_expr)
               /\ right_expr.op = "/"
               /\ IsLiteral(right_expr.right)
       THEN FoldErrorTerm(original_expr, expr,
                          [right_expr EXCEPT !.right = Negated(right_expr.right),
                                             !.id = id],
                          left_expr, id)
       ELSE FoldErrorTerm(original_expr, expr, left_expr, right_expr, id)

\* fold_divmod(original_expr) on an integer BinaryOp; id is the identity of
\* the BinaryOp it makes, if it makes one. The shift counts are Literals
\* that are not negative.
FoldDivmod(original_expr, id) ==
    LET expr == original_expr
        left_expr == EarlyUnwrapInts(expr.left)
        right_expr == EarlyUnwrapInts(expr.right)
        new_denom == ShiftBy(left_expr.right.value, Short(right_expr.value))
    IN IF original_expr.op \notin PossibleMatchOps THEN original_expr
       ELSE IF /\ IsBinaryOp(left_expr)
               /\ left_expr.op = ">>"
               /\ IsLiteral(left_expr.right)
               /\ expr.op = "+"
               /\ right_expr.kind = "CarryBit"
       THEN MkBinaryOp(left_expr.left, "/",
                       MkLiteral(Power2(Short(left_expr.right.value))), id)
       ELSE IF /\ IsBinaryOp(left_expr)
               /\ left_expr.op = "/"
               /\ IsLiteral(left_expr.right)
               /\ expr.op = ">>"
               /\ IsLiteral(right_expr)
               /\ (left_expr.right.negative \/ Less(new_denom, Power2(32)))
       THEN MkBinaryOp(left_expr.left, "/",
                       [left_expr.right EXCEPT !.value = new_denom], id)
       ELSE FoldModulo(original_expr, left_expr, right_expr, id)

\* ------------------------------------------------------------------------
\* set_user_profile (coreapp/middleware.py) and the profiles it works on
\* ------------------------------------------------------------------------

\* The users of the site; 0 stands for no user (None, AnonymousUser).
MaxUsers == 2

Users == 1..MaxUsers

\* None where a Profile is expected.
NoProfile == [is_none |-> TRUE, id |-> 0, user |-> 0, last_request_date |-> 0]

\* Profile(): a profile that is not saved has no id.
MkProfile == [is_none |-> FALSE, id |-> 0, user |-> 0, last_request_date |-> 0]

\* The table of the profiles is the sequence of its rows, the id of a row
\* its index; the rows that were deleted keep their ids.
MkRow(user, last_request_date) ==
    [deleted |-> FALSE, user |-> user, last_request_date |-> last_request_date]

LiveIds(db) == {i \in 1..Len(db) : ~db[i].deleted}

\* first() of a query set ordered by id
FirstId(ids) == CHOOSE i \in ids : \A j \in ids : i <= j

\* The model object of a row.
FromRow(db, id) ==
    [is_none |-> FALSE, id |-> id, user |-> db[id].user,
     last_request_date |-> db[id].last_request_date]

\* Profile.objects.filter(user=user).first()
ProfileOfUser(db, user) ==
    LET ids == {i \in LiveIds(db) : db[i].user = user}
    IN IF ids = {} THEN NoProfile ELSE FromRow(db, FirstId(ids))

\* A lookup that finds no profile.
ProfileByIdMissing(db, id) == NoProfile

\* Profile.objects.filter(id=id).first()
ProfileById(db, id) == IF id \in LiveIds(db) THEN FromRow(db, id) ELSE NoProfile

\* A lookup that finds no user.
UserOfProfileNobody(db, profile) == 0

\* User.objects.filter(profile=profile).first(): the user the row of the
\* profile refers to; with None for the profile, the first user that has no
\* profile. 0 when there is none.
UserOfProfile(db, profile) ==
    IF profile.is_none
    THEN LET free == {u \in Users : \A i \in LiveIds(db) : db[i].user # u}
         IN IF free = {} THEN 0 ELSE FirstId(free)
    ELSE IF profile.id \in LiveIds(db) THEN db[profile.id].user
    ELSE 0

\* profile.save(): a profile without id is inserted and gets the next id, a
\* profile with an id overwrites its row.
SaveProfile(db, profile) ==
    IF profile.id = 0
    THEN [db |-> Append(db, MkRow(profile.user, profile.last_request_date)),
          profile |-> [profile EXCEPT !.id = Len(db) + 1]]
    ELSE [db |-> [db EXCEPT ![profile.id] =
                      MkRow(profile.user, profile.last_request_date)],
          profile |-> profile]

\* The values of session["profile_id"]: absent, an int, something else.
NoSessionValue == [kind |-> "none", value |-> 0]

IntValue(i) == [kind |-> "int", value |-> i]

OtherValue == [kind |-> "other", value |-> 0]

\* The middleware from its first line to where it has a saved profile or
\* none, one database query at a time. Each step takes the table and the
\* request and gives the request after it.

\* lines 45-52
StartRequest(req) ==
    IF req.ssr
    THEN [req EXCEPT !.profile = MkProfile, !.pc = "respond"]
    ELSE [req EXCEPT !.profile = NoProfile, !.pc = "user_lookup"]

\* lines 54-59
UserLookup(db, req) ==
    LET profile == IF req.user # 0 THEN ProfileOfUser(db, req.user) ELSE NoProfile
    IN [req EXCEPT !.profile = profile,
                   !.pc = IF profile.is_none THEN "session_lookup" ELSE "touch"]

\* lines 60-63
SessionLookup(db, req, session_data) ==
    LET id == session_data.profile_id
    IN IF id.kind = "int"
       THEN [req EXCEPT !.profile = ProfileById(db, id.value), !.pc = "owner_lookup"]
       ELSE [req EXCEPT !.pc = "create"]

\* lines 64-72
OwnerLookup(db, req) ==
    LET profile_user == UserOfProfile(db, req.profile)
        profile == IF profile_user # 0 /\ req.user = 0 THEN NoProfile
                   ELSE req.profile
    IN [req EXCEPT !.profile = profile,
                   !.pc = IF profile.is_none THEN "create" ELSE "touch"]

\* lines 73-78
CreateProfile(db, req) ==
    IF req.user = 0
    THEN [req EXCEPT !.profile = MkProfile, !.pc = "insert"]
    ELSE IF ~ProfileOfUser(db, req.user).is_none
    THEN [req EXCEPT !.profile = MkProfile, !.pc = "AssertionError"]
    ELSE [req EXCEPT !.profile = [MkProfile EXCEPT !.user = req.user],
                     !.pc = "insert"]

\* lines 84-87
TouchProfile(req) ==
    [req EXCEPT !.profile.user = IF @ = 0 /\ req.user # 0 THEN req.user ELSE @,
                !.profile.last_request_date = req.number]

\* ------------------------------------------------------------------------
\* State
\* ------------------------------------------------------------------------

VARIABLES
    exprs,            \* the expression objects created so far
    vars,             \* the Var objects created so far (StackInfo.temp_vars)
    used_naive_phis,  \* the shared list of NaivePhiExpr's that were use()d
    use_calls,        \* per expression: number of use() calls received
    regs,             \* RegInfo.contents of the node being translated
    read_inherited,   \* RegInfo.read_inherited
    to_write,         \* NodeState.to_write
    local_var_writes, \* NodeState.local_var_writes
    has_function_call,\* NodeState.has_function_call
    last_op,          \* what the last store or call saw when it wrote its statement
    reads,            \* the register reads of the last operation
    ninstr,           \* number of instructions evaluated so far
    graph,            \* the flow graph of the function
    translate_stack,  \* the worklist of translate_all_blocks
    block_info,       \* per node: Block.block_info
    planned_vars,     \* StackInfo.planned_vars
    persistent_planned_vars, \* PersistentFunctionState.planned_vars
    planned_inherited_phis,  \* PersistentFunctionState.planned_inherited_phis
    order,            \* the nodes translated so far in this pass, in order
    prev_phis,        \* the used phis of the previous pass and their resolution
    pc,               \* where translate_to_ast stands
    stop_on_error,    \* Options.stop_on_error
    raised,           \* the exception that left translate_all_blocks ("" for none)
    pass,             \* number of the translation pass
    stack_info,       \* the StackInfo of the function get_stack_info looks at
    stack_var,        \* the last get_stack_var call and what it returned
    temp_name_counter,\* StackInfo.temp_name_counter
    named,            \* the Vars and the named phis of the function
    formatted,        \* the last Var.format call and what it returned
    evaluated,        \* the instructions evaluated so far, in order
    rlwinm,           \* the arguments of a handle_rlwinm call and its result
    divmod,           \* a division by a constant and what fold_divmod made of it
    profiles,         \* the table of the profiles
    session,          \* the session of the browser: its data and its user
    request,          \* the request being served and where the middleware is
    joined,           \* the join() calls made so far on the PlannedVars
    propagation,      \* where propagate_register_meta stands and its worklist
    workers           \* the requests served at the same time and where each stands

nodeVars == <<exprs, vars, used_naive_phis, use_calls, regs, read_inherited,
              to_write, local_var_writes, has_function_call, last_op, reads,
              ninstr>>

graphVars == <<graph, translate_stack, block_info, planned_vars,
               persistent_planned_vars, planned_inherited_phis, order,
               prev_phis, pc, pass, stop_on_error, raised>>

stackVars == <<stack_info, stack_var>>

nameVars == <<temp_name_counter, named, formatted>>

saveVars == <<evaluated>>

foldVars == <<rlwinm, divmod>>

webVars == <<profiles, session, request>>

unionVars == <<joined>>

metaVars == <<propagation>>

workerVars == <<workers>>

funcVars == <<stackVars, nameVars, saveVars, foldVars, webVars, unionVars,
              metaVars, workerVars>>

\* The variables a machine leaves alone besides those of the translation.
besideStack == <<nameVars, saveVars, foldVars, webVars, unionVars,
                metaVars, workerVars>>

besideNames == <<stackVars, saveVars, foldVars, webVars, unionVars,
                metaVars, workerVars>>

besideSave == <<stackVars, nameVars, foldVars, webVars, unionVars,
                metaVars, workerVars>>

besideFold == <<stackVars, nameVars, saveVars, webVars, unionVars,
                metaVars, workerVars>>

besideWeb == <<stackVars, nameVars, saveVars, foldVars, unionVars,
                metaVars, workerVars>>

besideUnion == <<stackVars, nameVars, saveVars, foldVars, webVars, metaVars,
                 workerVars>>

besideMeta == <<stackVars, nameVars, saveVars, foldVars, webVars, unionVars,
                workerVars>>

besideWorkers == <<stackVars, nameVars, saveVars, foldVars, unionVars, metaVars>>

allVars == <<nodeVars, graphVars, funcVars>>

\* A function of a single block.
SingleBlock == MkGraph(<< <<>> >>, <<0>>, << <<2>> >>, {})

\* A machine with no expression, no Var and no register entry.
EmptyMachine ==
    [exprs |-> <<>>, vars |-> <<>>, used_naive_phis |-> <<>>, use_calls |-> <<>>,
     regs |-> NoRegisters, read_inherited |-> {},
     to_write |-> <<>>, local_var_writes |-> {}, has_function_call |-> FALSE,
     last_op |-> NoOp, reads |-> <<>>, active_instr |-> NoInstr,
     branch_condition |-> 0, node |-> 1,
     error |-> "", error_instr |-> 0, stop_on_error |-> FALSE, raised |-> "",
     graph |-> SingleBlock, translate_stack |-> <<>>,
     block_info |-> <<NoBlockInfo>>, planned_vars |-> {},
     persistent_planned_vars |-> <<>>, planned_inherited_phis |-> {},
     order |-> <<>>, new_regs |-> NoRegisters, groups |-> <<>>,
     ret |-> 0, aux |-> 0]

\* setup_initial_registers: the callee-saved register holds its saved_reg_
\* symbol, the argument register its PassedInArg.
SetupInitialRegisters(m) ==
    LET Saved(m1) == SetInitialReg(m1, "s0", m1.ret, FALSE)
        Arg(m3) == SetInitialReg(m3, "a0", m3.ret, TRUE)
    IN Arg(Alloc(Saved(Alloc(m, MkExpr("GlobalSymbol", 0, 0, 0))),
                 MkExpr("PassedInArg", 0, 0, 0)))

\* The machine made of the current state.
Machine ==
    [exprs |-> exprs, vars |-> vars, used_naive_phis |-> used_naive_phis,
     use_calls |-> use_calls, regs |-> regs, read_inherited |-> read_inherited,
     to_write |-> to_write, local_var_writes |-> local_var_writes,
     has_function_call |-> has_function_call, last_op |-> last_op,
     reads |-> <<>>, active_instr |-> NoInstr, branch_condition |-> 0,
     node |-> IF order = <<>> THEN 1 ELSE order[Len(order)],
     error |-> "", error_instr |-> 0, stop_on_error |-> stop_on_error,
     raised |-> raised,
     graph |-> graph, translate_stack |-> translate_stack,
     block_info |-> block_info, planned_vars |-> planned_vars,
     persistent_planned_vars |-> persistent_planned_vars,
     planned_inherited_phis |-> planned_inherited_phis,
     order |-> order, new_regs |-> NoRegisters, groups |-> <<>>,
     ret |-> 0, aux |-> 0]

SetMachineVars(m) ==
    /\ exprs' = m.exprs
    /\ vars' = m.vars
    /\ used_naive_phis' = m.used_naive_phis
    /\ use_calls' = m.use_calls
    /\ regs' = m.regs
    /\ read_inherited' = m.read_inherited
    /\ to_write' = m.to_write
    /\ local_var_writes' = m.local_var_writes
    /\ has_function_call' = m.has_function_call
    /\ last_op' = m.last_op
    /\ reads' = m.reads
    /\ raised' = m.raised
    /\ graph' = m.graph
    /\ translate_stack' = m.translate_stack
    /\ block_info' = m.block_info
    /\ planned_vars' = m.planned_vars
    /\ persistent_planned_vars' = m.persistent_planned_vars
    /\ planned_inherited_phis' = m.planned_inherited_phis
    /\ order' = m.order

SetMachine(m) == SetMachineVars(m) /\ UNCHANGED funcVars

\* The state in which translate_to_ast hands the entry node to
\* translate_all_blocks: planned vars and initial registers are set up and
\* the worklist holds the state of the entry node.
StartPass(m) ==
    LET Entry(m1) == [m1 EXCEPT !.translate_stack =
                         <<[node |-> 1, regs |-> m1.regs, to_write |-> m1.to_write]>>]
    IN Entry(SetupInitialRegisters(SetupPlannedVars(m)))

\* No function is looked at outside of a translation.
NoStack ==
    /\ stack_info = NoStackInfo
    /\ stack_var = NoStackVar

NoFormat == [var |-> 0, text |-> <<>>, first |-> FALSE]

NoNames ==
    /\ temp_name_counter = <<>>
    /\ named = <<>>
    /\ formatted = NoFormat

NoSave == evaluated = <<>>

NoRlwinm == [source |-> 0, shift |-> 0, mask_begin |-> 0, mask_end |-> 0,
             called |-> FALSE, result |-> AllOnes]

NoDivmod == [d |-> 0, signed |-> FALSE, cast |-> FALSE, multiplier |-> <<>>,
             post_shift |-> 0, step |-> "none", value |-> MkArg(0),
             folded_whole |-> FALSE, whole |-> MkArg(0), next_id |-> 1]

NoFold == rlwinm = NoRlwinm /\ divmod = NoDivmod

NoSession == [profile_id |-> NoSessionValue, user |-> 0]

NoRequest == [number |-> 0, pc |-> "none", ssr |-> FALSE, user |-> 0,
              profile |-> NoProfile, created |-> FALSE,
              at_start |-> [profile_id |-> NoSessionValue, rows |-> 0,
                            owner |-> 0, held |-> FALSE],
              view |-> "none"]

NoWeb == profiles = <<>> /\ session = NoSession /\ request = NoRequest

NoUnion == joined = {}

NoPropagation == [phase |-> "none", reg |-> "", todo |-> <<>>]

NoMeta == propagation = NoPropagation

NoWorkers == workers = <<>>

NoFunction ==
    NoStack /\ NoNames /\ NoSave /\ NoFold /\ NoWeb /\ NoUnion /\ NoMeta /\ NoWorkers

InitMachineVars(m) ==
    /\ exprs = m.exprs
    /\ vars = m.vars
    /\ used_naive_phis = m.used_naive_phis
    /\ use_calls = m.use_calls
    /\ regs = m.regs
    /\ read_inherited = m.read_inherited
    /\ to_write = m.to_write
    /\ local_var_writes = m.local_var_writes
    /\ has_function_call = m.has_function_call
    /\ last_op = m.last_op
    /\ reads = <<>>
    /\ raised = ""
    /\ stop_on_error = m.stop_on_error
    /\ graph = m.graph
    /\ translate_stack = m.translate_stack
    /\ block_info = m.block_info
    /\ planned_vars = m.planned_vars
    /\ persistent_planned_vars = m.persistent_planned_vars
    /\ planned_inherited_phis = m.planned_inherited_phis
    /\ order = m.order
    /\ ninstr = 0
    /\ prev_phis = {}
    /\ pass = 1

InitState(m) == InitMachineVars(m) /\ NoFunction

\* The first pass over a function of a single block, at the point where
\* translate_all_blocks has taken the entry node from the worklist.
InitNode ==
    /\ \E m \in {[StartPass(EmptyMachine) EXCEPT !.translate_stack = <<>>,
                                                   !.order = <<1>>]} :
          InitState(m)
    /\ pc = "node"

\* ------------------------------------------------------------------------
\* The node-level machine: the instructions of one block are evaluated in
\* order (translate_node_body); every step evaluates the next instruction,
\* chosen among the instruction forms below.
\* ------------------------------------------------------------------------

Li == {MkInstr(0, "li", "v0", "", "", k, {}, {"v0"}, {}) : k \in 1..MaxLit}

Move == {MkInstr(0, "move", p[1], p[2], "", 0, {p[2]}, {p[1]}, {}) :
            p \in {<<"s0", "a0">>, <<"v0", "s0">>}}

Xor == {MkInstr(0, "xor", "v0", "s0", "a0", 0, {"s0", "a0"}, {"v0"}, {})}

Lw == {MkInstr(0, "lw", p[1], p[2], "", 0, {p[2]}, {p[1]}, {}) :
          p \in {<<"s0", "a0">>, <<"v0", "s0">>}}

LwSp == {MkInstr(0, "lw", "a0", "sp", "", o, {"sp"}, {"a0"}, {}) : o \in StackOffsets}

Sw == {MkInstr(0, "sw", "", p[1], p[2], 0, {p[1], p[2]}, {}, {}) :
          p \in {<<"s0", "s0">>, <<"v0", "a0">>, <<"a0", "a0">>}}

SwSp == {MkInstr(0, "sw", "", r, "sp", o, {r, "sp"}, {}, {}) :
            r \in {"s0", "v0"}, o \in StackOffsets}

Jal == {MkInstr(0, "jal", "", a, "", 0, IF a = "" THEN {} ELSE {a}, {"v0"},
                TempRegs \ {"v0"}) : a \in {"a0", ""}}

\* The instruction forms of the node-level machine.
Instructions == Li \cup Move \cup Xor \cup Lw \cup LwSp \cup Sw \cup SwSp \cup Jal

\* One iteration of the loop of translate_node_body.
Step ==
    /\ ninstr < MaxInstrs
    /\ \E instr \in Instructions :
          SetMachine(EvaluateInstruction(Machine, [instr EXCEPT !.id = ninstr + 1]))
    /\ ninstr' = ninstr + 1
    /\ UNCHANGED <<prev_phis, pc, pass, stop_on_error>>

NextNode == Step

SpecNode == InitNode /\ [][NextNode]_allVars

\* ------------------------------------------------------------------------
\* The function-level machine: translate_to_ast on a flow graph, pass after
\* pass.  The function is translated as a void function (options.void), so
\* no return value is read from the return blocks.
\* ------------------------------------------------------------------------

\* Number of translation passes over the function.
NumPasses == 2

InitGraph ==
    /\ \E g \in FlowGraphs :
          \E m \in {StartPass([EmptyMachine EXCEPT
                                  !.graph = g,
                                  !.block_info = [n \in Nodes(g) |-> NoBlockInfo]])} :
              InitState(m)
    /\ pc = "translate"

\* One iteration of the loop of translate_all_blocks.  An exception that
\* leaves translate_all_blocks ends the translation of the function.
TranslateStep ==
    /\ pc = "translate"
    /\ raised = ""
    /\ translate_stack # <<>>
    /\ SetMachine(TranslateBlock(Machine))
    /\ UNCHANGED <<ninstr, prev_phis, pc, pass, stop_on_error>>

\* The node state translate_all_blocks ended with, as assign_naive_phis
\* left it.
LastState(m) ==
    [m EXCEPT !.regs = m.block_info[m.order[Len(m.order)]].final_register_states,
              !.to_write = m.block_info[m.order[Len(m.order)]].to_write]

\* The worklist is empty: translate_all_blocks returns and translate_to_ast
\* goes on to propagate_register_meta for the return register and to
\* assign_naive_phis.
AssignPhis ==
    /\ pc = "translate"
    /\ raised = ""
    /\ translate_stack = <<>>
    /\ SetMachine(LastState(AssignNaivePhis(PropagateRegisterMeta(Machine, "v0"))))
    /\ pc' = "done"
    /\ UNCHANGED <<ninstr, prev_phis, pass, stop_on_error>>

\* What a pass leaves of a used phi for the comparison with the next pass.
PhiRecord(e) ==
    [reg |-> exprs[e].reg, node |-> exprs[e].node, sources |-> exprs[e].sources,
     uses_dominator |-> exprs[e].uses_dominator,
     replaced |-> exprs[e].replacement_expr # 0, named |-> exprs[e].named,
     inherited |-> <<exprs[e].reg, exprs[e].node>> \in planned_inherited_phis]

\* The next call of translate_to_ast on the same function: expressions, Vars
\* and block infos are new, the persistent function state is kept.
NextPass ==
    /\ pc = "done"
    /\ pass < NumPasses
    /\ SetMachine(StartPass([EmptyMachine EXCEPT
              !.graph = graph,
              !.block_info = [n \in Nodes(graph) |-> NoBlockInfo],
              !.persistent_planned_vars = persistent_planned_vars,
              !.planned_inherited_phis = planned_inherited_phis]))
    /\ prev_phis' = {PhiRecord(used_naive_phis[i]) : i \in 1..Len(used_naive_phis)}
    /\ pc' = "translate"
    /\ pass' = pass + 1
    /\ UNCHANGED <<ninstr, stop_on_error>>

NextGraph == TranslateStep \/ AssignPhis \/ NextPass

SpecGraph == InitGraph /\ [][NextGraph]_allVars

\* ------------------------------------------------------------------------
\* The function-level machine on functions whose instructions do not keep
\* to their declarations, with and without stop_on_error: one pass of
\* translate_to_ast.
\* ------------------------------------------------------------------------

\* "li $v0, 5" that does not declare $v0 as an output.
LiV0Undeclared == [LiV0(5) EXCEPT !.outputs = {}]

\* "move $v0, $s0" that does not declare $s0 as an input.
MoveV0S0Undeclared == [MoveV0S0 EXCEPT !.inputs = {}]

\* "li $v0" without the immediate the handler asks for.
LiV0Short == [LiV0(5) EXCEPT !.short = TRUE]

\* "move $v0, $zero", with $zero declared as an input or not.
MoveV0Zero(declared) ==
    MkInstr(0, "move", "v0", "zero", "", 0, IF declared THEN {"zero"} ELSE {}, {"v0"}, {})

\* "lw $zero, 0($a0)": a load whose value is thrown away.
LwZero == MkInstr(0, "lw", "zero", "a0", "", 0, {"a0"}, {"zero"}, {})

\* A conditional instruction whose handler sets neither a branch condition
\* nor a switch control.
BranchNoCondition == [BnezA0 EXCEPT !.eval_fn = FALSE]

\* The bodies of the blocks of these functions.
ErrorBlocks ==
    {<<>>, <<SwV0("a0")>>, <<LiV0Undeclared>>,
     <<MoveV0S0Undeclared, SwV0("a0")>>,
     <<SwV0("a0"), LiV0Short, LwS0>>,
     <<MoveV0Zero(TRUE)>>, <<MoveV0Zero(FALSE)>>, <<LwZero>>, <<BnezA0>>}

\* The conditional instructions that end the block of a ConditionalNode.
Branches == {BnezA0, BranchNoCondition}

\* The instructions of node n with body block and, for a ConditionalNode,
\* the branch that ends it.
NodeBlockWithBranch(g, n, block, branch) ==
    LET full == IF n \in g.conditional THEN Append(block, branch) ELSE block
    IN [i \in 1..Len(full) |-> [full[i] EXCEPT !.id = 4 * n + i]]

ErrorGraphs == {IfThen, Loop}

ErrorFlowGraphs ==
    UNION {{[g EXCEPT !.blocks =
                [n \in Nodes(g) |-> NodeBlockWithBranch(g, n, body[n], branch)]] :
               body \in [Nodes(g) -> ErrorBlocks], branch \in Branches} :
           g \in ErrorGraphs}

InitError ==
    /\ \E g \in ErrorFlowGraphs : \E option \in BOOLEAN :
          \E m \in {StartPass([EmptyMachine EXCEPT
                                  !.graph = g,
                                  !.block_info = [n \in Nodes(g) |-> NoBlockInfo],
                                  !.stop_on_error = option])} :
              InitState(m)
    /\ pc = "translate"

NextError == TranslateStep \/ AssignPhis

SpecError == InitError /\ [][NextError]_allVars

\* ------------------------------------------------------------------------
\* The wrapper-level machine: EvalOnceExpr objects are created by _eval_once
\* and receive use() and force() calls in any order, in a pass in which the
\* value that instruction 1 gives to v0 has a planned variable.
\* ------------------------------------------------------------------------

\* Largest number of expression objects of the wrapper-level machine.
MaxExprs == 4

\* Largest number of use() calls the wrapper-level machine makes on one
\* expression.
MaxUses == 2

InitWrapper ==
    /\ \E m \in {SetupPlannedVars([EmptyMachine EXCEPT
                       !.persistent_planned_vars = [k \in {<<"v0", 1>>} |-> NoParent]])} :
          InitState(m)
    /\ pc = "wrapper"

\* make_function_call wraps the call it has built: _eval_once with
\* emit_exactly_once for the pseudo-register ret.
WrapCall ==
    /\ pc = "wrapper"
    /\ Len(exprs) + 2 <= MaxExprs
    /\ SetMachine(EvalOnce(Alloc(Machine, MkExpr("FuncCall", 0, 0, 0)),
                           Len(exprs) + 1, TRUE, FALSE, "ret", 1))
    /\ UNCHANGED <<ninstr, prev_phis, pc, pass, stop_on_error>>

\* set_reg wraps a new value for a register: a literal or an argument of
\* the function (wrapped transparently, should_wrap_transparently), or the
\* reinterpretation of an earlier value (wrapped opaquely).
WrapValue ==
    /\ pc = "wrapper"
    /\ Len(exprs) + 2 <= MaxExprs
    /\ \E kind \in {"Literal", "PassedInArg", "Cast"}, reg \in {"v0", "s0"} :
          \E x \in IF kind = "Cast"
                    THEN {e \in 1..Len(exprs) : exprs[e].kind = "EvalOnceExpr"}
                    ELSE {0} :
              SetMachine(EvalOnce(Alloc(Machine, MkExpr(kind, x, 0, 0)),
                                  Len(exprs) + 1,
                                  FALSE,
                                  kind \in {"Literal", "PassedInArg"},
                                  reg, 1))
    /\ UNCHANGED <<ninstr, prev_phis, pc, pass, stop_on_error>>

\* set_reg wraps the value read from another register (a move to s0); the
\* read of a trivial wrapper yields the wrapped expression, never the wrapper.
WrapWrapper ==
    /\ pc = "wrapper"
    /\ Len(exprs) + 1 <= MaxExprs
    /\ \E x \in 1..Len(exprs) :
          /\ exprs[x].kind = "EvalOnceExpr"
          /\ ~exprs[x].emit_exactly_once
          /\ ~exprs[x].trivial
          /\ SetMachine(EvalOnce(Machine, x, FALSE,
                                 ShouldWrapTransparently(Machine, x), "s0", 1))
    /\ UNCHANGED <<ninstr, prev_phis, pc, pass, stop_on_error>>

\* A holder of a wrapper calls use() on it.
UseStep ==
    /\ pc = "wrapper"
    /\ \E e \in 1..Len(exprs) :
          /\ exprs[e].kind = "EvalOnceExpr"
          /\ use_calls[e] < MaxUses
          /\ SetMachine(Use(Machine, e))
    /\ UNCHANGED <<ninstr, prev_phis, pc, pass, stop_on_error>>

\* RegInfo.__getitem__ calls force() on the value of a force-flagged
\* register.
ForceStep ==
    /\ pc = "wrapper"
    /\ \E e \in 1..Len(exprs) :
          /\ exprs[e].kind = "EvalOnceExpr"
          /\ ~exprs[e].emit_exactly_once
          /\ SetMachine(Force(Machine, e))
    /\ UNCHANGED <<ninstr, prev_phis, pc, pass, stop_on_error>>

NextWrapper == WrapCall \/ WrapValue \/ WrapWrapper \/ UseStep \/ ForceStep

SpecWrapper == InitWrapper /\ [][NextWrapper]_allVars

\* ------------------------------------------------------------------------
\* The stack-layout machine: get_stack_info on a function, then
\* get_stack_var on the locations of its frame and of the arguments of its
\* caller.
\* ------------------------------------------------------------------------

\* Largest frame size, in words.
MaxFrameWords == 6

\* Largest number of registers the entry block saves.
MaxSaves == 3

\* Size in bytes of the part of the caller's frame the function looks at.
CallerArea == 8

\* The sequences of at most n distinct elements of a set.
RECURSIVE DistinctSeqs(_, _)
DistinctSeqs(set, n) ==
    IF n = 0 THEN {<<>>}
    ELSE {<<>>} \cup UNION {{<<x>> \o t : t \in DistinctSeqs(set \ {x}, n - 1)} : x \in set}

\* The functions of the stack-layout machine: the frame is a multiple of 8
\* bytes, registers are saved at distinct word offsets inside the frame, and
\* a MIPS function that saves the return address saves something.
Functions ==
    UNION {{f \in {MkFunction(arch, 8 * k, saved, link_saved, loads, addrs) :
                     arch \in {"mips", "ppc"},
                     saved \in DistinctSeqs({4 * w : w \in 0..(2 * k - 1)}, MaxSaves),
                     link_saved \in BOOLEAN, loads \in {{}, {8}, {16}},
                     addrs \in SUBSET {12}} :
               (f.arch = "mips" /\ f.link_saved) => f.saved # <<>>} :
           k \in 0..(MaxFrameWords \div 2)}

InitStack ==
    /\ InitMachineVars(EmptyMachine)
    /\ pc = "stack"
    /\ stack_info \in {[NoStackInfo EXCEPT !.function = f] : f \in Functions}
    /\ stack_var = NoStackVar
    /\ NoNames /\ NoSave /\ NoFold /\ NoWeb /\ NoUnion /\ NoMeta /\ NoWorkers

GetStackInfoStep ==
    /\ pc = "stack"
    /\ stack_info.raised = "none"
    /\ stack_info' = GetStackInfo(stack_info.function)
    /\ UNCHANGED <<nodeVars, graphVars, stack_var, besideStack>>

\* get_stack_var on the words of the frame and of the caller's area, from
\* the lowest to the highest.
GetStackVarStep ==
    /\ pc = "stack"
    /\ stack_info.raised = ""
    /\ \E location \in 0..(stack_info.allocated_stack_size + CallerArea - 1) :
          /\ location % 4 = 0
          /\ stack_var.location < location
          /\ stack_var' = [location |-> location, kind |-> GetStackVar(stack_info, location)]
    /\ UNCHANGED <<nodeVars, graphVars, stack_info, besideStack>>

NextStack == GetStackInfoStep \/ GetStackVarStep

SpecStack == InitStack /\ [][NextStack]_allVars

\* ------------------------------------------------------------------------
\* The naming machine: Vars are created, marked emitted and formatted, and
\* phis are named, in any order.
\* ------------------------------------------------------------------------

\* Largest number of Vars and named phis.
MaxNames == 4

\* Line number and block index of the objects created with deterministic_vars.
LineNo == 2

\* The prefixes of the Vars.
VarPrefixes == {TempPrefix("v0", d, LineNo) : d \in BOOLEAN}

\* The prefixes of the phis.
PhiPrefixes == {PhiPrefix("v0", d, LineNo) : d \in BOOLEAN}

InitNames ==
    /\ InitMachineVars(EmptyMachine)
    /\ pc = "names"
    /\ NoStack /\ NoSave /\ NoFold /\ NoWeb /\ NoUnion /\ NoMeta /\ NoWorkers
    /\ NoNames

\* Var(stack_info, prefix, type)
NewVar ==
    /\ pc = "names"
    /\ Len(named) < MaxNames
    /\ \E prefix \in VarPrefixes : named' = Append(named, MkVar(prefix))
    /\ UNCHANGED <<nodeVars, graphVars, besideNames, temp_name_counter, formatted>>

\* var.is_emitted = True
MarkEmitted ==
    /\ pc = "names"
    /\ \E i \in DOMAIN named :
          /\ named[i].kind = "Var"
          /\ ~named[i].is_emitted
          /\ named' = [named EXCEPT ![i].is_emitted = TRUE]
    /\ UNCHANGED <<nodeVars, graphVars, besideNames, temp_name_counter, formatted>>

\* var.format(fmt), of a Var that is emitted (the method asserts it)
FormatVar ==
    /\ pc = "names"
    /\ \E i \in DOMAIN named :
          /\ named[i].kind = "Var"
          /\ named[i].is_emitted
          /\ LET f == VarFormat(temp_name_counter, named[i]) IN
             /\ named' = [named EXCEPT ![i] = f.var]
             /\ temp_name_counter' = f.counter
             /\ formatted' = [var |-> i, text |-> f.var.name,
                              first |-> named[i].name = <<>>]
    /\ UNCHANGED <<nodeVars, graphVars, besideNames>>

\* phi.name = stack_info.temp_var(prefix), for a used phi without replacement
NamePhi ==
    /\ pc = "names"
    /\ Len(named) < MaxNames
    /\ \E prefix \in PhiPrefixes :
          LET t == TempVar(temp_name_counter, prefix) IN
          /\ named' = Append(named, MkPhi(prefix, t.name))
          /\ temp_name_counter' = t.counter
    /\ UNCHANGED <<nodeVars, graphVars, besideNames, formatted>>

NextNames == NewVar \/ MarkEmitted \/ FormatVar \/ NamePhi

SpecNames == InitNames /\ [][NextNames]_allVars

\* ------------------------------------------------------------------------
\* The save-and-restore machine: the instructions of one block, among them
\* the save of the callee-saved register to its stack slot and its restore.
\* ------------------------------------------------------------------------

\* sw s0, 8(sp)
SaveS0 == MkInstr(0, "sw", "", "s0", "sp", 8, {"s0", "sp"}, {}, {})

\* lw s0, 8(sp)
RestoreS0 == MkInstr(0, "lw", "s0", "sp", "", 8, {"sp"}, {"s0"}, {})

\* The instruction forms of the save-and-restore machine: besides the save
\* and the restore, instructions that leave the register and its slot
\* alone (li v0; sw v0, 0(a0); jal), that read the register (move v0, s0),
\* that write it (move s0, a0), and that access the slot (lw a0, 8(sp);
\* sw v0, 8(sp)).
SaveInstructions ==
    {SaveS0, RestoreS0,
     MkInstr(0, "li", "v0", "", "", 1, {}, {"v0"}, {}),
     MkInstr(0, "sw", "", "v0", "a0", 0, {"v0", "a0"}, {}, {}),
     MkInstr(0, "jal", "", "a0", "", 0, {"a0"}, {"v0"}, TempRegs \ {"v0"}),
     MkInstr(0, "move", "v0", "s0", "", 0, {"s0"}, {"v0"}, {}),
     MkInstr(0, "move", "s0", "a0", "", 0, {"a0"}, {"s0"}, {}),
     MkInstr(0, "lw", "a0", "sp", "", 8, {"sp"}, {"a0"}, {}),
     MkInstr(0, "sw", "", "v0", "sp", 8, {"v0", "sp"}, {}, {})}

InitSave ==
    /\ \E m \in {[StartPass(EmptyMachine) EXCEPT !.translate_stack = <<>>,
                                                   !.order = <<1>>]} :
          InitMachineVars(m)
    /\ pc = "save"
    /\ NoStack /\ NoNames /\ NoFold /\ NoWeb /\ NoUnion /\ NoMeta /\ NoWorkers
    /\ evaluated = <<>>

\* One iteration of the loop of translate_node_body.
StepSave ==
    /\ pc = "save"
    /\ ninstr < MaxInstrs
    /\ \E instr \in SaveInstructions :
          /\ SetMachineVars(EvaluateInstruction(Machine, [instr EXCEPT !.id = ninstr + 1]))
          /\ evaluated' = Append(evaluated, instr)
    /\ ninstr' = ninstr + 1
    /\ UNCHANGED <<prev_phis, pc, pass, stop_on_error, besideSave>>

NextSave == StepSave

SpecSave == InitSave /\ [][NextSave]_allVars

\* ------------------------------------------------------------------------
\* The leaf-function machine: a function of one block that takes two
\* arguments in registers, calls nothing and is not declared; options.void
\* is off.
\* ------------------------------------------------------------------------

\* Largest number of instructions of the block.
MaxLeafInstrs == 2

\* addu v0, rs, rt
AdduV0(rs, rt) == MkInstr(0, "addu", "v0", rs, rt, 0, {rs, rt}, {"v0"}, {})

\* The instruction forms of the block: sums of the argument registers,
\* loads of a literal and moves of an argument register.
LeafInstructions ==
    {AdduV0(rs, rt) : rs, rt \in ArgumentRegs}
    \cup {MkInstr(0, "li", "v0", "", "", k, {}, {"v0"}, {}) : k \in 1..MaxLit}
    \cup {MkInstr(0, "move", "v0", rs, "", 0, {rs}, {"v0"}, {}) : rs \in ArgumentRegs}

\* The bodies of the block.
LeafBlocks == UNION {[1..n -> LeafInstructions] : n \in 0..MaxLeafInstrs}

\* setup_initial_registers for a function with a second argument slot.
SetupSecondArgument(m) ==
    SetInitialReg(Alloc(m, MkExpr("PassedInArg", 0, 0, 4)), "a1", Len(m.exprs) + 1, TRUE)

InitLeaf ==
    /\ \E block \in LeafBlocks :
          \E m \in {[SetupSecondArgument(SetupInitialRegisters(SetupPlannedVars(
                        [EmptyMachine EXCEPT
                            !.graph = [SingleBlock EXCEPT
                                          !.blocks = <<NodeBlock(SingleBlock, 1, block)>>],
                            !.block_info = <<NoBlockInfo>>])))
                      EXCEPT !.ret = 0]} :
              InitMachineVars([m EXCEPT !.translate_stack =
                  <<[node |-> 1, regs |-> m.regs, to_write |-> m.to_write]>>])
    /\ pc = "translate"
    /\ NoFunction

\* The worklist is empty: translate_all_blocks returns and translate_to_ast
\* goes on to propagate_register_meta, to the return register and the
\* return values, and to assign_naive_phis.
AssignPhisReturning ==
    /\ pc = "translate"
    /\ raised = ""
    /\ translate_stack = <<>>
    /\ SetMachine(LastState(AssignNaivePhis(
            ReturnValues(PropagateRegisterMeta(Machine, "v0"), FALSE))))
    /\ pc' = "done"
    /\ UNCHANGED <<ninstr, prev_phis, pass, stop_on_error>>

NextLeaf == TranslateStep \/ AssignPhisReturning

SpecLeaf == InitLeaf /\ [][NextLeaf]_allVars

\* ------------------------------------------------------------------------
\* The rlwinm machine: handle_rlwinm is called on a Literal.
\* ------------------------------------------------------------------------

\* The values of the Literal: a small one, one with the top bit of the word
\* clear and high bits set, and negative ones.
LiteralValues == {5, 1073741827, 0 - 1, 0 - 2, 0 - 1073741821}

\* The mask bounds (MB and ME fields of the instruction).
MaskBits == {0, 1, 15, 16, 30, 31}

InitRlwinm ==
    /\ InitMachineVars(EmptyMachine)
    /\ pc = "rlwinm"
    /\ NoStack /\ NoNames /\ NoSave /\ NoWeb /\ NoUnion /\ NoMeta /\ NoWorkers
    /\ rlwinm \in {[NoRlwinm EXCEPT !.source = v, !.shift = sh,
                                      !.mask_begin = mb, !.mask_end = me] :
                       v \in LiteralValues, sh \in Positions,
                       mb \in MaskBits, me \in MaskBits}
    /\ divmod = NoDivmod

\* handle_rlwinm(Literal(source), shift, mask_begin, mask_end)
CallRlwinm ==
    /\ pc = "rlwinm"
    /\ ~rlwinm.called
    /\ rlwinm' = [rlwinm EXCEPT
                     !.called = TRUE,
                     !.result = HandleRlwinm(rlwinm.source, rlwinm.shift,
                                             rlwinm.mask_begin, rlwinm.mask_end)]
    /\ UNCHANGED <<nodeVars, graphVars, besideFold, divmod>>

NextRlwinm == CallRlwinm

SpecRlwinm == InitRlwinm /\ [][NextRlwinm]_allVars

\* ------------------------------------------------------------------------
\* The division machine: the instructions of a division by a constant are
\* translated one after the other, each handler passing the BinaryOp it
\* builds to fold_divmod.
\* ------------------------------------------------------------------------

\* The largest divisor.
MaxDivisor == 1000

IsPowerOfTwo(n) == \E k \in 0..29 : n = 2 ^ k

\* The divisors that are not powers of two.
Divisors == {d \in 3..MaxDivisor : ~IsPowerOfTwo(d)}

\* The least l with 2^l >= d.
CeilLog2(d) == Cardinality({l \in 0..29 : 2 ^ l < d})

\* The multiplier and the shift of a division, the smallest that do.
RECURSIVE Reduce(_, _, _)
Reduce(mlow, mhigh, post_shift) ==
    IF post_shift > 0 /\ Less(Half(mlow), Half(mhigh))
    THEN Reduce(Half(mlow), Half(mhigh), post_shift - 1)
    ELSE [multiplier |-> mhigh, post_shift |-> post_shift]

\* The multiplier m and the shift s a compiler takes for the division of a
\* 32-bit word by d, exact for the dividends of precision bits:
\* x / d = (x * m) >> (32 + s).
ChooseMultiplier(d, precision) ==
    LET lgup == CeilLog2(d)
        mlow == DivMod(Power2(32 + lgup), Long(d)).q
        mhigh == DivMod(Plus(Power2(32 + lgup), Power2(32 + lgup - precision)),
                        Long(d)).q
    IN Reduce(mlow, mhigh, lgup)

\* The dividend x, an argument of the function.
Dividend == MkArg(0)

\* A division by d, signed or not.
StartDivmod(d, signed) ==
    LET chosen == ChooseMultiplier(d, IF signed THEN 31 ELSE 32)
    IN [NoDivmod EXCEPT !.d = d, !.signed = signed,
                        !.multiplier = chosen.multiplier,
                        !.post_shift = chosen.post_shift,
                        !.step = "mult"]

\* The signed division adds x to the product when the multiplier does not
\* fit a signed word.
AddsDividend(dm) == dm.signed /\ BitLength(dm.multiplier) = 32

\* The operand of the division: x, or x cast to an integer type.
Operand(dm) == IF dm.cast THEN MkIntCast(Dividend) ELSE Dividend

\* The step after the given one.
StepAfter(dm, step) ==
    IF step = "mult" /\ AddsDividend(dm) THEN "add"
    ELSE IF step \in {"mult", "add"} /\ dm.post_shift > 0 THEN "shift"
    ELSE IF step \in {"mult", "add", "shift"} /\ dm.signed THEN "correct"
    ELSE "done"

\* The expression of the whole division, nothing of it folded: the high
\* product, x added to it, shifted right, the sign of x taken off.
RawDivision(dm) ==
    LET product == MkBinaryOp(Operand(dm),
                              IF dm.signed THEN "MULT_HI" ELSE "MULTU_HI",
                              MkLiteral(dm.multiplier), 1)
        sum == IF AddsDividend(dm) THEN MkBinaryOp(product, "+", Operand(dm), 2)
               ELSE product
        shifted == IF dm.post_shift > 0
                   THEN MkBinaryOp(sum, ">>", MkLiteral(Long(dm.post_shift)), 3)
                   ELSE sum
        sign == MkBinaryOp(Operand(dm), ">>", MkLiteral(Long(31)), 4)
    IN IF dm.signed THEN MkBinaryOp(shifted, "-", sign, 5) ELSE shifted

\* The divisions whose multiplier fits a word: all the signed ones, and the
\* unsigned ones that are a high product and a shift.
InitDivmod ==
    /\ InitMachineVars(EmptyMachine)
    /\ pc = "divmod"
    /\ NoStack /\ NoNames /\ NoSave /\ NoWeb /\ NoUnion /\ NoMeta /\ NoWorkers
    /\ rlwinm = NoRlwinm
    /\ \E dm \in {StartDivmod(d, signed) : d \in Divisors, signed \in BOOLEAN} :
           /\ BitLength(dm.multiplier) <= 32
           /\ divmod \in {[dm EXCEPT !.cast = cast] : cast \in BOOLEAN}

\* One instruction: the BinaryOp of the value so far, the operator and the
\* operand goes through fold_divmod.
FoldStep(step, op, right) ==
    /\ pc = "divmod"
    /\ divmod.step = step
    /\ divmod' = [divmod EXCEPT
                     !.step = StepAfter(divmod, step),
                     !.value = FoldDivmod(MkBinaryOp(divmod.value, op, right,
                                                     divmod.next_id),
                                          divmod.next_id + 1),
                     !.next_id = divmod.next_id + 2]
    /\ UNCHANGED <<nodeVars, graphVars, besideFold, rlwinm>>

\* mult, multu: the high word of the product
MultHigh ==
    /\ pc = "divmod"
    /\ divmod.step = "mult"
    /\ divmod' = [divmod EXCEPT
                     !.step = StepAfter(divmod, "mult"),
                     !.value = FoldDivmod(
                         MkBinaryOp(Operand(divmod),
                                    IF divmod.signed THEN "MULT_HI" ELSE "MULTU_HI",
                                    MkLiteral(divmod.multiplier), divmod.next_id),
                         divmod.next_id + 1),
                     !.next_id = divmod.next_id + 2]
    /\ UNCHANGED <<nodeVars, graphVars, besideFold, rlwinm>>

\* handle_add: x is added to the high word
AddDividend == FoldStep("add", "+", Operand(divmod))

\* handle_sra: the shift of the high word
ShiftHigh == FoldStep("shift", ">>", MkLiteral(Long(divmod.post_shift)))

\* The sign of x, x >> 31 from handle_sra, is taken off.
CorrectSign ==
    FoldStep("correct", "-",
             FoldDivmod(MkBinaryOp(Operand(divmod), ">>", MkLiteral(Long(31)),
                                   divmod.next_id + 2),
                        divmod.next_id + 3))

\* fold_divmod on the expression of the whole division
FoldWhole ==
    /\ pc = "divmod"
    /\ divmod.step = "done"
    /\ ~divmod.folded_whole
    /\ divmod' = [divmod EXCEPT
                     !.folded_whole = TRUE,
                     !.whole = FoldDivmod(RawDivision(divmod), 6)]
    /\ UNCHANGED <<nodeVars, graphVars, besideFold, rlwinm>>

NextDivmod == MultHigh \/ AddDividend \/ ShiftHigh \/ CorrectSign \/ FoldWhole

SpecDivmod == InitDivmod /\ [][NextDivmod]_allVars

\* ------------------------------------------------------------------------
\* The profile machine: the requests of one browser session go through
\* set_user_profile one after the other, each to a view.
\* ------------------------------------------------------------------------

\* The rows of the table at the start.
MaxRows == 2

\* The requests of the session.
MaxRequests == 2

\* The tables at the start: every user has one profile at most.
Tables ==
    {db \in UNION {[1..n -> [deleted : BOOLEAN, user : 0..MaxUsers,
                             last_request_date : {0}]] : n \in 0..MaxRows} :
        \A i, j \in LiveIds(db) : (i # j /\ db[i].user # 0) => db[i].user # db[j].user}

\* The sessions at the start: of any user or of none, with any value for
\* profile_id, the id of a row that never was among them.
Sessions ==
    {[profile_id |-> v, user |-> u] :
        v \in {NoSessionValue, OtherValue} \cup {IntValue(i) : i \in 1..(MaxRows + 1)},
        u \in 0..MaxUsers}

\* A request of the session as it comes in; it remembers what the session
\* and the table held then.
IncomingRequest(number, ssr, db, session_data) ==
    LET id == session_data.profile_id
        held == id.kind = "int" /\ id.value \in LiveIds(db)
    IN [NoRequest EXCEPT
           !.number = number, !.pc = "start", !.ssr = ssr,
           !.user = session_data.user,
           !.at_start = [profile_id |-> id, rows |-> Len(db),
                         owner |-> IF held THEN db[id.value].user ELSE 0,
                         held |-> held]]

InitProfile ==
    /\ InitMachineVars(EmptyMachine)
    /\ pc = "profile"
    /\ NoStack /\ NoNames /\ NoSave /\ NoFold /\ NoUnion /\ NoMeta /\ NoWorkers
    /\ profiles \in Tables
    /\ session \in Sessions
    /\ \E ssr \in BOOLEAN : request = IncomingRequest(1, ssr, profiles, session)

\* A step of the middleware that writes nothing.
MiddlewareStep(at, after) ==
    /\ pc = "profile"
    /\ request.pc = at
    /\ request' = after
    /\ UNCHANGED <<nodeVars, graphVars, besideWeb, profiles, session>>

Start == MiddlewareStep("start", StartRequest(request))

LookupUser == MiddlewareStep("user_lookup", UserLookup(profiles, request))

LookupSession ==
    MiddlewareStep("session_lookup", SessionLookup(profiles, request, session))

LookupOwner == MiddlewareStep("owner_lookup", OwnerLookup(profiles, request))

Create == MiddlewareStep("create", CreateProfile(profiles, request))

\* lines 80-82: the new profile gets its row and the session its id
Insert ==
    /\ pc = "profile"
    /\ request.pc = "insert"
    /\ LET saved == SaveProfile(profiles, request.profile)
       IN /\ profiles' = saved.db
          /\ session' = [session EXCEPT !.profile_id = IntValue(saved.profile.id)]
          /\ request' = [request EXCEPT !.profile = saved.profile,
                                        !.created = TRUE, !.pc = "touch"]
    /\ UNCHANGED <<nodeVars, graphVars, besideWeb>>

\* lines 84-88
Touch ==
    /\ pc = "profile"
    /\ request.pc = "touch"
    /\ LET saved == SaveProfile(profiles, TouchProfile(request).profile)
       IN /\ profiles' = saved.db
          /\ request' = [request EXCEPT !.profile = saved.profile, !.pc = "respond"]
    /\ UNCHANGED <<nodeVars, graphVars, besideWeb, session>>

\* lines 90-92 (and 49-50): request.profile is set and the next handler
\* is called
Respond == MiddlewareStep("respond", [request EXCEPT !.pc = "handler"])

\* A view that leaves the session and the profiles alone.
View == MiddlewareStep("handler", [request EXCEPT !.pc = "done", !.view = "other"])

\* CurrentUser.post without a code (coreapp/views/user.py, lines 32-39):
\* the user is logged out and the session gets a new profile
Logout ==
    /\ pc = "profile"
    /\ request.pc = "handler"
    /\ ~request.ssr
    /\ LET saved == SaveProfile(profiles, MkProfile)
       IN /\ profiles' = saved.db
          /\ session' = [profile_id |-> IntValue(saved.profile.id), user |-> 0]
          /\ request' = [request EXCEPT !.profile = saved.profile, !.user = 0,
                                        !.pc = "done", !.view = "logout"]
    /\ UNCHANGED <<nodeVars, graphVars, besideWeb>>

\* The next request of the session comes in.
NextRequest ==
    /\ pc = "profile"
    /\ request.pc = "done"
    /\ request.number < MaxRequests
    /\ \E ssr \in BOOLEAN :
          request' = IncomingRequest(request.number + 1, ssr, profiles, session)
    /\ UNCHANGED <<nodeVars, graphVars, besideWeb, profiles, session>>

NextProfile ==
    \/ Start \/ LookupUser \/ LookupSession \/ LookupOwner \/ Create \/ Insert
    \/ Touch \/ Respond \/ View \/ Logout \/ NextRequest

SpecProfile == InitProfile /\ [][NextProfile]_allVars

\* ------------------------------------------------------------------------
\* The union-find machine: join() and get_representative() calls, in any
\* order, on the PlannedVars of a function.
\* ------------------------------------------------------------------------

\* Number of PlannedVars of the union-find machine.
MaxPlanned == 3

\* Largest number of different join() calls the union-find machine makes.
MaxJoins == 3

\* The keys of the PlannedVars: register v0 as set by instructions
\* 1..MaxPlanned.
PlannedKeys == {<<"v0", i>> : i \in 1..MaxPlanned}

InitUnion ==
    /\ InitMachineVars([EmptyMachine EXCEPT
           !.persistent_planned_vars = [k \in PlannedKeys |-> NoParent]])
    /\ pc = "union"
    /\ NoStack /\ NoNames /\ NoSave /\ NoFold /\ NoWeb /\ NoMeta /\ NoWorkers
    /\ joined = {}

\* self.join(other)
JoinStep ==
    /\ pc = "union"
    /\ \E self \in PlannedKeys, other \in PlannedKeys :
          /\ Cardinality(joined \cup {<<self, other>>}) <= MaxJoins
          /\ persistent_planned_vars' = Join(persistent_planned_vars, self, other)
          /\ joined' = joined \cup {<<self, other>>}
    /\ UNCHANGED <<nodeVars, graph, translate_stack, block_info, planned_vars,
                   planned_inherited_phis, order, prev_phis, pc, pass,
                   stop_on_error, raised, besideUnion>>

\* k.get_representative()
GetRepresentativeStep ==
    /\ pc = "union"
    /\ \E k \in PlannedKeys :
          persistent_planned_vars' = Compress(persistent_planned_vars, k)
    /\ UNCHANGED <<nodeVars, graph, translate_stack, block_info, planned_vars,
                   planned_inherited_phis, order, prev_phis, pc, pass,
                   stop_on_error, raised, besideUnion, joined>>

NextUnion == JoinStep \/ GetRepresentativeStep

SpecUnion == InitUnion /\ [][NextUnion]_allVars

\* ------------------------------------------------------------------------
\* The propagation machine: propagate_register_meta, one iteration of its
\* worklist loops at a time, on the block infos that translate_all_blocks
\* left for a flow graph.
\* ------------------------------------------------------------------------

\* translate_all_blocks: the loop until the worklist is empty or an
\* exception leaves it.
RECURSIVE TranslateAllBlocks(_)
TranslateAllBlocks(m) ==
    IF m.translate_stack = <<>> \/ m.raised # "" THEN m
    ELSE TranslateAllBlocks(TranslateBlock(m))

InitMeta ==
    /\ \E g \in FlowGraphs :
          \E m \in {TranslateAllBlocks(StartPass([EmptyMachine EXCEPT
                       !.graph = g,
                       !.block_info = [n \in Nodes(g) |-> NoBlockInfo]]))} :
              InitMachineVars(m)
    /\ pc = "propagate"
    /\ NoStack /\ NoNames /\ NoSave /\ NoFold /\ NoWeb /\ NoUnion /\ NoWorkers
    /\ propagation = NoPropagation

\* propagate_register_meta is called for a return register: the first loop
\* sets is_read from read_inherited, and the worklist of the second loop is
\* made.
StartPropagation ==
    /\ propagation.phase = "none"
    /\ \E reg \in {BaseReturnRegs[i] : i \in 1..Len(BaseReturnRegs)} :
          /\ SetMachineVars(SetReadFromInherited(Machine, reg))
          /\ propagation' = [phase |-> "is_read", reg |-> reg,
                             todo |-> NonTerminal(graph)]
    /\ UNCHANGED <<ninstr, prev_phis, pc, pass, stop_on_error, besideMeta>>

\* One iteration of the second loop.
IsReadIteration ==
    /\ propagation.phase = "is_read"
    /\ propagation.todo # <<>>
    /\ \E r \in {PopIsRead(Machine, propagation.reg, propagation.todo)} :
          /\ SetMachineVars(r[1])
          /\ propagation' = [propagation EXCEPT !.todo = r[2]]
    /\ UNCHANGED <<ninstr, prev_phis, pc, pass, stop_on_error, besideMeta>>

\* The second loop has ended: the third loop assumes the flags of the
\* inherited values, and the worklist of the fourth loop is made.
StartForwards ==
    /\ propagation.phase = "is_read"
    /\ propagation.todo = <<>>
    /\ SetMachineVars(AssumeInherited(Machine, propagation.reg))
    /\ propagation' = [propagation EXCEPT !.phase = "forwards",
                                          !.todo = NonTerminal(graph)]
    /\ UNCHANGED <<ninstr, prev_phis, pc, pass, stop_on_error, besideMeta>>

\* One iteration of the fourth loop.
ForwardsIteration ==
    /\ propagation.phase = "forwards"
    /\ propagation.todo # <<>>
    /\ \E r \in {PopForwards(Machine, propagation.reg, propagation.todo)} :
          /\ SetMachineVars(r[1])
          /\ propagation' = [propagation EXCEPT !.todo = r[2]]
    /\ UNCHANGED <<ninstr, prev_phis, pc, pass, stop_on_error, besideMeta>>

\* The fourth loop has ended: propagate_register_meta returns.
EndPropagation ==
    /\ propagation.phase = "forwards"
    /\ propagation.todo = <<>>
    /\ propagation' = [propagation EXCEPT !.phase = "returned"]
    /\ UNCHANGED <<nodeVars, graphVars, besideMeta>>

NextMeta ==
    \/ StartPropagation
    \/ IsReadIteration
    \/ StartForwards
    \/ ForwardsIteration
    \/ EndPropagation

\* The loops are sequential code: an iteration that can be made is made.
SpecMeta == InitMeta /\ [][NextMeta]_allVars /\ WF_allVars(NextMeta)

\* ------------------------------------------------------------------------
\* The worker machine: requests of one logged-in user go through
\* set_user_profile at the same time, each in a worker of its own with its
\* own request and its own copy of its session; the workers share the table
\* of the profiles. A step of a worker is one database query of the
\* middleware with the lines around it that touch nothing shared.
\* ------------------------------------------------------------------------

\* The workers that serve requests at the same time.
MaxWorkers == 2

WorkerIds == 1..MaxWorkers

\* The request of a worker as it comes in, with the session it came with;
\* it remembers whether its user had a profile then.
IncomingWorker(number, ssr, db, session_data) ==
    [request |-> IncomingRequest(number, ssr, db, session_data),
     session |-> session_data,
     without_profile |-> ProfileOfUser(db, session_data.user).is_none]

InitWorkers ==
    /\ InitMachineVars(EmptyMachine)
    /\ pc = "workers"
    /\ NoStack /\ NoNames /\ NoSave /\ NoFold /\ NoUnion /\ NoMeta
    /\ session = NoSession
    /\ request = NoRequest
    /\ profiles \in Tables
    /\ \E user \in Users :
          \E sessions \in [WorkerIds -> {s \in Sessions : s.user = user}] :
              workers = [w \in WorkerIds |->
                            IncomingWorker(w, FALSE, profiles, sessions[w])]

\* A step of the worker w that writes nothing shared.
WorkerStep(w, at, after) ==
    /\ pc = "workers"
    /\ workers[w].request.pc = at
    /\ workers' = [workers EXCEPT ![w].request = after]
    /\ UNCHANGED <<nodeVars, graphVars, besideWorkers, webVars>>

\* lines 45-52
WorkerStart ==
    \E w \in WorkerIds : WorkerStep(w, "start", StartRequest(workers[w].request))

\* lines 54-59: the query for the profile of the user
WorkerLookupUser ==
    \E w \in WorkerIds :
        WorkerStep(w, "user_lookup", UserLookup(profiles, workers[w].request))

\* lines 60-63: the query for the profile of the session
WorkerLookupSession ==
    \E w \in WorkerIds :
        WorkerStep(w, "session_lookup",
                   SessionLookup(profiles, workers[w].request, workers[w].session))

\* lines 64-72: the query for the user of that profile
WorkerLookupOwner ==
    \E w \in WorkerIds :
        WorkerStep(w, "owner_lookup", OwnerLookup(profiles, workers[w].request))

\* lines 73-78: the query of the assertion
WorkerCreate ==
    \E w \in WorkerIds :
        WorkerStep(w, "create", CreateProfile(profiles, workers[w].request))

\* lines 80-82: the INSERT of the new profile
WorkerInsert ==
    \E w \in WorkerIds :
        /\ pc = "workers"
        /\ workers[w].request.pc = "insert"
        /\ LET saved == SaveProfile(profiles, workers[w].request.profile)
           IN /\ profiles' = saved.db
              /\ workers' =
                   [workers EXCEPT
                       ![w].session.profile_id = IntValue(saved.profile.id),
                       ![w].request = [@ EXCEPT !.profile = saved.profile,
                                                !.created = TRUE, !.pc = "touch"]]
        /\ UNCHANGED <<nodeVars, graphVars, besideWorkers, session, request>>

\* lines 84-88: the UPDATE of the profile
WorkerTouch ==
    \E w \in WorkerIds :
        /\ pc = "workers"
        /\ workers[w].request.pc = "touch"
        /\ LET saved == SaveProfile(profiles,
                                    TouchProfile(workers[w].request).profile)
           IN /\ profiles' = saved.db
              /\ workers' = [workers EXCEPT
                                ![w].request = [@ EXCEPT !.profile = saved.profile,
                                                         !.pc = "respond"]]
        /\ UNCHANGED <<nodeVars, graphVars, besideWorkers, session, request>>

\* lines 90-92
WorkerRespond ==
    \E w \in WorkerIds :
        WorkerStep(w, "respond", [workers[w].request EXCEPT !.pc = "handler"])

NextWorkers ==
    \/ WorkerStart \/ WorkerLookupUser \/ WorkerLookupSession
    \/ WorkerLookupOwner \/ WorkerCreate \/ WorkerInsert \/ WorkerTouch
    \/ WorkerRespond

SpecWorkers == InitWorkers /\ [][NextWorkers]_allVars

\* ------------------------------------------------------------------------
\* Properties of the expression-sharing protocol (node-level machine)
\* ------------------------------------------------------------------------

EvalOnceExprs == {e \in 1..Len(exprs) : exprs[e].kind = "EvalOnceExpr"}

IsEmitted(e) == vars[exprs[e].var].is_emitted

\* Number of places where the expression object target is reached when the
\* expression root is formatted: a wrapper formats as its variable once the
\* variable is emitted and as its wrapped expression otherwise; a resolved
\* phi formats as its replacement.
RECURSIVE Appearances(_, _, _)
Appearances(m, root, target) ==
    IF root = 0 THEN 0
    ELSE (IF root = target THEN 1 ELSE 0) +
         (CASE m.exprs[root].kind = "EvalOnceExpr" ->
                 IF UsesVar(m, root) THEN 0
                 ELSE Appearances(m, m.exprs[root].x, target)
            [] m.exprs[root].kind = "NaivePhiExpr" ->
                 Appearances(m, m.exprs[root].replacement_expr, target)
            [] m.exprs[root].kind = "PlannedPhiExpr" -> 0
            [] OTHER -> Appearances(m, m.exprs[root].x, target)
                        + Appearances(m, m.exprs[root].y, target))

\* Appearances of target in one statement, if it is written.
StmtAppearances(m, st, target) ==
    IF ~ShouldWrite(m, st) THEN 0
    ELSE CASE st.kind = "EvalOnceStmt" -> Appearances(m, m.exprs[st.expr].x, target)
           [] st.kind = "StoreStmt" ->
                Appearances(m, st.expr, target) + Appearances(m, st.dest, target)
           [] st.kind \in {"SetNaivePhiStmt", "ExprStmt"} ->
                Appearances(m, st.expr, target)
           [] OTHER -> 0

RECURSIVE ListAppearances(_, _, _)
ListAppearances(m, stmts, target) ==
    IF stmts = <<>> THEN 0
    ELSE StmtAppearances(m, Head(stmts), target)
         + ListAppearances(m, Tail(stmts), target)

\* C1 (as stated): a non-trivial EvalOnceExpr that was never forced has its
\* Var un-emitted after exactly one use() call and emitted after a second
\* use() call, whether it is opaque or transparent.
C1_SecondUseEmits ==
    \A e \in EvalOnceExprs :
        (~exprs[e].trivial /\ ~exprs[e].forced_emit) =>
            /\ use_calls[e] = 1 => ~IsEmitted(e)
            /\ use_calls[e] >= 2 => IsEmitted(e)

\* C1 (amended): a non-trivial, non-transparent EvalOnceExpr that was never
\* forced has its Var un-emitted after at most one use() call and emitted
\* after the second; a transparent wrapper that was never forced keeps its
\* Var un-emitted however many use() calls it receives.
C1_OpaqueSecondUseEmits ==
    \A e \in EvalOnceExprs :
        (~exprs[e].trivial /\ ~exprs[e].forced_emit) =>
            IF exprs[e].transparent
            THEN ~IsEmitted(e)
            ELSE /\ use_calls[e] <= 1 => ~IsEmitted(e)
                 /\ use_calls[e] >= 2 => IsEmitted(e)

\* An opaque wrapper used twice and a transparent wrapper used twice, neither
\* of them forced.
C1_Witness ==
    /\ \E e \in EvalOnceExprs :
          /\ ~exprs[e].trivial /\ ~exprs[e].forced_emit /\ ~exprs[e].transparent
          /\ use_calls[e] >= 2
    /\ \E e \in EvalOnceExprs :
          /\ ~exprs[e].trivial /\ ~exprs[e].forced_emit /\ exprs[e].transparent
          /\ use_calls[e] >= 2

\* C2: for every EvalOnceExpr on which force() was not called, and for the
\* expression wrapped by any EvalOnceExpr, the number of use() calls it
\* received equals the number of places where it (or its variable) appears in
\* the statements that are written.
C2_UsesEqualAppearances ==
    \A x \in 1..Len(exprs) :
        (/\ ~exprs[x].forced_emit
         /\ \/ x \in EvalOnceExprs
            \/ \E e \in EvalOnceExprs : exprs[e].x = x)
        => use_calls[x] = ListAppearances(Machine, to_write, x)

\* C3 (as stated): when a store or a function call appends its statement,
\* every register whose wrapped expression contains the store destination, a
\* struct/array read or a function call is already force-flagged.
C3_FlaggedBeforeAppend ==
    last_op.kind # "none" =>
        (last_op.with_dest \cup last_op.with_read \cup last_op.with_call)
            \subseteq last_op.forced_at_append

\* C3 (amended): when store_memory appends its StoreStmt, every register
\* whose wrapped expression contains the store destination or a function call
\* is force-flagged; when make_function_call returns, every register left in
\* the register state whose wrapped expression contains a function call or a
\* struct/array read is force-flagged.
C3_FlaggedByOperation ==
    /\ last_op.kind = "store" =>
          (last_op.with_dest \cup last_op.with_call) \subseteq last_op.forced_at_append
    /\ last_op.kind = "call" =>
          (last_op.end_with_call \cup last_op.end_with_read) \subseteq last_op.forced_at_end

\* A function call that found a register holding a struct read.
C3_Witness ==
    /\ last_op.kind = "call"
    /\ last_op.end_with_read # {}

\* ------------------------------------------------------------------------
\* Properties of the translation of a flow graph (function-level machine)
\* ------------------------------------------------------------------------

\* The non-terminal nodes of the dominator tree below node n in preorder,
\* children in their listed order.
RECURSIVE Preorder(_, _)
RECURSIVE PreorderOfChildren(_, _, _)
PreorderOfChildren(g, children, i) ==
    IF i > Len(children) THEN <<>>
    ELSE IF children[i] = g.terminal THEN PreorderOfChildren(g, children, i + 1)
    ELSE Preorder(g, children[i]) \o PreorderOfChildren(g, children, i + 1)

Preorder(g, n) == <<n>> \o PreorderOfChildren(g, g.immediately_dominates[n], 1)

\* The nodes whose translation has started.
Translated == {order[i] : i \in 1..Len(order)}

\* The visit order so far is the beginning of the preorder of the dominator
\* tree, every translated node has its block info, and a node is translated
\* or on the worklist only when its immediate dominator has its block info.
VisitsInPreorder ==
    /\ Len(order) <= Len(Preorder(graph, 1))
    /\ order = SubSeq(Preorder(graph, 1), 1, Len(order))
    /\ \A i, j \in 1..Len(order) : order[i] = order[j] => i = j
    /\ \A n \in Translated : block_info[n].present
    /\ \A n \in Translated \ {1} : block_info[graph.immediate_dominator[n]].present
    /\ \A i \in 1..Len(translate_stack) :
          /\ translate_stack[i].node \notin Translated
          /\ \/ translate_stack[i].node = 1
             \/ block_info[graph.immediate_dominator[translate_stack[i].node]].present
    /\ \A n \in Nodes(graph) : block_info[n].present => n \in Translated
    /\ (pc = "done" \/ translate_stack = <<>>) =>
          /\ translate_stack = <<>>
          /\ Translated = Nodes(graph)

NodeAffects(g, n, reg) ==
    \E i \in 1..Len(g.blocks[n]) : reg \in g.blocks[n][i].outputs \cup g.blocks[n][i].clobbers

\* The parents of a set of nodes.
ParentsOf(g, ns) == UNION {{g.parents[n][i] : i \in 1..Len(g.parents[n])} : n \in ns}

\* The nodes from which a node of ns is reached going only through nodes of
\* allowed (the nodes of ns included).
RECURSIVE BackVia(_, _, _)
BackVia(g, allowed, ns) ==
    IF (ParentsOf(g, ns) \cap allowed) \subseteq ns THEN ns
    ELSE BackVia(g, allowed, ns \cup (ParentsOf(g, ns) \cap allowed))

\* The nodes passed on the paths from the end of the immediate dominator of
\* node n to the start of n.
PathNodes(g, n) ==
    BackVia(g, Nodes(g) \ {g.immediate_dominator[n]},
            ParentsOf(g, {n}) \ {g.immediate_dominator[n]})

\* The nodes of these paths that leave the register alone and from which n is
\* reached without the register being written or clobbered.
CleanNodes(g, n, reg) ==
    BackVia(g, {x \in PathNodes(g, n) : ~NodeAffects(g, x, reg)},
            {x \in ParentsOf(g, {n}) \cap PathNodes(g, n) : ~NodeAffects(g, x, reg)})

\* Some path from the dominator to n neither writes nor clobbers the register.
CleanPath(g, n, reg) ==
    g.immediate_dominator[n] \in ParentsOf(g, {n}) \cup ParentsOf(g, CleanNodes(g, n, reg))

\* The nodes in which the register is written or clobbered for the last time
\* on some path from the dominator to n.
LastAffecting(g, n, reg) ==
    {x \in PathNodes(g, n) :
        /\ NodeAffects(g, x, reg)
        /\ x \in ParentsOf(g, {n}) \cup ParentsOf(g, CleanNodes(g, n, reg))}

\* The last instruction of node n that writes or clobbers the register.
LastAffectingInstr(g, n, reg) == g.blocks[n][LastEffect(g.blocks[n], reg)]

\* The sources of the expression a register holds.
SourcesOf(e) ==
    IF exprs[e].kind = "EvalOnceExpr" THEN {exprs[e].source}
    ELSE {exprs[e].sources[i] : i \in 1..Len(exprs[e].sources)}

\* The node states waiting on the worklist for a node other than the entry
\* node: the initial states built by create_dominated_node_state.
ChildStates ==
    {translate_stack[i] : i \in {j \in 1..Len(translate_stack) : translate_stack[j].node # 1}}

\* The registers the immediate dominator of node n ended with.
DominatorRegs(n) == block_info[graph.immediate_dominator[n]].final_register_states

IsPhi(e) == exprs[e].kind \in {"NaivePhiExpr", "PlannedPhiExpr"}

\* C5 (as stated): in a first pass, a register that no path from D to N
\* writes or clobbers holds in N what it held at the end of D, and a register
\* with a value at the end of D that is written or clobbered on some but not
\* all paths from D to N holds a phi in N.
C5_InheritedOrPhi ==
    (pass = 1 /\ pc = "translate") =>
        \A st \in ChildStates : \A reg \in Regs :
            /\ LastAffecting(graph, st.node, reg) = {} =>
                  /\ st.regs[reg].present = DominatorRegs(st.node)[reg].present
                  /\ st.regs[reg].value = DominatorRegs(st.node)[reg].value
            /\ ( /\ LastAffecting(graph, st.node, reg) # {}
                 /\ CleanPath(graph, st.node, reg)
                 /\ DominatorRegs(st.node)[reg].present ) =>
                  /\ st.regs[reg].present
                  /\ IsPhi(st.regs[reg].value)

\* C5 (amended): in a first pass, a register that no path from D to N writes
\* or clobbers holds in N what it held at the end of D.  A register with a
\* value at the end of D that is written or clobbered on some but not all
\* paths holds a NaivePhiExpr that uses the dominator and whose sources are
\* the last writes on these paths and the sources of D's value, provided
\* that every node in which it is affected last on a path ends by writing
\* it; if in one of them the last effect is a clobber, the register is absent
\* from N's state.
C5_InheritedOrWrittenPhi ==
    (pass = 1 /\ pc = "translate") =>
        \A st \in ChildStates : \A reg \in Regs :
            /\ LastAffecting(graph, st.node, reg) = {} =>
                  /\ st.regs[reg].present = DominatorRegs(st.node)[reg].present
                  /\ st.regs[reg].value = DominatorRegs(st.node)[reg].value
            /\ ( /\ LastAffecting(graph, st.node, reg) # {}
                 /\ CleanPath(graph, st.node, reg)
                 /\ DominatorRegs(st.node)[reg].present ) =>
                  IF \A x \in LastAffecting(graph, st.node, reg) :
                         reg \in LastAffectingInstr(graph, x, reg).outputs
                  THEN /\ st.regs[reg].present
                       /\ exprs[st.regs[reg].value].kind = "NaivePhiExpr"
                       /\ exprs[st.regs[reg].value].reg = reg
                       /\ exprs[st.regs[reg].value].node = st.node
                       /\ exprs[st.regs[reg].value].uses_dominator
                       /\ SourcesOf(st.regs[reg].value) =
                              {LastAffectingInstr(graph, x, reg).id :
                                   x \in LastAffecting(graph, st.node, reg)}
                              \cup SourcesOf(DominatorRegs(st.node)[reg].value)
                  ELSE ~st.regs[reg].present

\* A first-pass child state in which one register is inherited unchanged,
\* one holds a phi for a write on one of two paths, and a third one, which
\* had a value at the end of the dominator, was clobbered on one of two paths.
C5_Witness ==
    /\ pass = 1 /\ pc = "translate"
    /\ \E st \in ChildStates :
          /\ \E reg \in Regs :
                /\ LastAffecting(graph, st.node, reg) = {}
                /\ st.regs[reg].present
                /\ st.regs[reg].value = DominatorRegs(st.node)[reg].value
          /\ \E reg \in Regs :
                /\ LastAffecting(graph, st.node, reg) # {}
                /\ CleanPath(graph, st.node, reg)
                /\ DominatorRegs(st.node)[reg].present
                /\ st.regs[reg].present
                /\ exprs[st.regs[reg].value].kind = "NaivePhiExpr"
          /\ \E reg \in Regs :
                /\ LastAffecting(graph, st.node, reg) # {}
                /\ CleanPath(graph, st.node, reg)
                /\ DominatorRegs(st.node)[reg].present
                /\ ~st.regs[reg].present

\* C6 (as stated): a register that is written or clobbered on every path from
\* D to N is absent from the initial state of N.
C6_AbsentWhenAffectedOnEveryPath ==
    pc = "translate" =>
        \A st \in ChildStates : \A reg \in Regs :
            ~CleanPath(graph, st.node, reg) => ~st.regs[reg].present

\* C6 (amended): a register that is written or clobbered on every path from
\* D to N is absent from the initial state of N only if, in one of the nodes
\* where it is affected last on a path, the last effect is a clobber;
\* if all of them end by writing it, N starts with a phi whose sources are
\* exactly these writes (a NaivePhiExpr that does not use the dominator, or a
\* PlannedPhiExpr).
C6_AbsentWhenClobberedLast ==
    pc = "translate" =>
        \A st \in ChildStates : \A reg \in Regs :
            ~CleanPath(graph, st.node, reg) =>
                IF \A x \in LastAffecting(graph, st.node, reg) :
                       reg \in LastAffectingInstr(graph, x, reg).outputs
                THEN /\ st.regs[reg].present
                     /\ IsPhi(st.regs[reg].value)
                     /\ exprs[st.regs[reg].value].kind = "NaivePhiExpr" =>
                            ~exprs[st.regs[reg].value].uses_dominator
                     /\ SourcesOf(st.regs[reg].value) =
                            {LastAffectingInstr(graph, x, reg).id :
                                 x \in LastAffecting(graph, st.node, reg)}
                ELSE ~st.regs[reg].present

\* Two child states of a join node with two parents: in one a register
\* written in both parents holds a phi of the two writes, in the other a
\* register clobbered in both parents is absent.
C6_Witness ==
    /\ pc = "translate"
    /\ \E st \in ChildStates :
          /\ Len(graph.parents[st.node]) = 2
          /\ \E reg \in Regs :
                /\ ~CleanPath(graph, st.node, reg)
                /\ st.regs[reg].present
                /\ exprs[st.regs[reg].value].kind = "NaivePhiExpr"
                /\ Len(exprs[st.regs[reg].value].sources) = 2
    /\ \E st \in ChildStates :
          \E reg \in Regs :
              /\ ~CleanPath(graph, st.node, reg)
              /\ DominatorRegs(st.node)[reg].present
              /\ ~st.regs[reg].present

\* ------------------------------------------------------------------------
\* Properties of assign_naive_phis and of the following pass
\* ------------------------------------------------------------------------

NaivePhiExprs == {e \in 1..Len(exprs) : exprs[e].kind = "NaivePhiExpr"}

UsedNaivePhis == {used_naive_phis[i] : i \in 1..Len(used_naive_phis)}

\* The nodes whose final register states give the values of a phi.
SourceNodes(e) ==
    {SourceNode(graph, exprs[e].sources[i]) : i \in 1..Len(exprs[e].sources)}

\* What final_register_states[reg] of node n returns (0 when the register
\* is not set).
FinalValue(n, reg) ==
    LET data == block_info[n].final_register_states[reg] IN
    IF ~data.present THEN 0
    ELSE IF exprs[data.value].kind = "EvalOnceExpr" /\ exprs[data.value].trivial
    THEN exprs[data.value].x
    ELSE data.value

\* The positions of the SetNaivePhiStmt's of phi e among the statements of
\* node n.
PhiStmts(n, e) ==
    {i \in 1..Len(block_info[n].to_write) :
        /\ block_info[n].to_write[i].kind = "SetNaivePhiStmt"
        /\ block_info[n].to_write[i].dest = e}

\* The values of the register of phi e at the end of its source nodes are
\* structurally equal once the temporaries around them are unwrapped.
SameAtSources(e) ==
    \A n1, n2 \in SourceNodes(e) :
        /\ FinalValue(n1, exprs[e].reg) # 0
        /\ FinalValue(n2, exprs[e].reg) # 0
        /\ ExprEq(Machine, EarlyUnwrap(Machine, FinalValue(n1, exprs[e].reg)),
                  EarlyUnwrap(Machine, FinalValue(n2, exprs[e].reg)))

\* C7: when assign_naive_phis has returned, a used phi whose register ends
\* with structurally equal values (after unwrapping temporaries) in all its
\* source nodes has a replacement_expr, no block holds a SetNaivePhiStmt for
\* it, it has no name, and what it is printed as (late_unwrap follows the
\* replacement) is, up to temporaries, the value shared by the sources.
C7_EqualSourcesCollapse ==
    pc = "done" =>
        \A e \in UsedNaivePhis :
            SameAtSources(e) =>
                /\ exprs[e].replacement_expr # 0
                /\ \A n \in Nodes(graph) : PhiStmts(n, e) = {}
                /\ ~exprs[e].named
                /\ LateUnwrap(Machine, e) = LateUnwrap(Machine, exprs[e].replacement_expr)
                /\ \A n \in SourceNodes(e) :
                      ExprEq(Machine, EarlyUnwrap(Machine, LateUnwrap(Machine, e)),
                             EarlyUnwrap(Machine, FinalValue(n, exprs[e].reg)))

\* Two predecessors both leave the literal 5 in a register that the merge
\* point reads: the phi of the merge point is printed as the literal 5.
C7_Witness ==
    /\ pc = "done"
    /\ \E e \in UsedNaivePhis :
          /\ SameAtSources(e)
          /\ Cardinality(SourceNodes(e)) = 2
          /\ exprs[e].num_usages > 0
          /\ exprs[LateUnwrap(Machine, e)].kind = "Literal"
          /\ exprs[LateUnwrap(Machine, e)].val = 5

\* Every SetNaivePhiStmt of a block comes after its other statements.
PhiStmtsAtEnd ==
    \A n \in Nodes(graph) : \A i, j \in 1..Len(block_info[n].to_write) :
        ( /\ block_info[n].to_write[i].kind = "SetNaivePhiStmt"
          /\ block_info[n].to_write[j].kind # "SetNaivePhiStmt" ) => j < i

\* C8: when assign_naive_phis has returned, every NaivePhiExpr that was
\* used has either a replacement_expr (and then no name and no statement),
\* or a name and exactly one SetNaivePhiStmt at the end of the block of each
\* of its source nodes and none elsewhere; a NaivePhiExpr that was never
\* used has no replacement_expr, no name and no statement.
C8_UsedPhisResolved ==
    pc = "done" =>
        /\ PhiStmtsAtEnd
        /\ \A e \in NaivePhiExprs :
              IF exprs[e].num_usages > 0
              THEN /\ e \in UsedNaivePhis
                   /\ \/ /\ exprs[e].replacement_expr # 0
                         /\ ~exprs[e].named
                         /\ \A n \in Nodes(graph) : PhiStmts(n, e) = {}
                      \/ /\ exprs[e].replacement_expr = 0
                         /\ exprs[e].named
                         /\ \A n \in SourceNodes(e) : Cardinality(PhiStmts(n, e)) = 1
                         /\ \A n \in Nodes(graph) \ SourceNodes(e) : PhiStmts(n, e) = {}
              ELSE /\ exprs[e].replacement_expr = 0
                   /\ ~exprs[e].named
                   /\ \A n \in Nodes(graph) : PhiStmts(n, e) = {}

\* The (register, source) keys of the sources of a phi of the previous pass.
SourceKeys(rec) == {<<rec.reg, rec.sources[i]>> : i \in 1..Len(rec.sources)}

\* The Var planned for a key (0 when there is none).
PlannedVarOf(k) ==
    IF \E p \in planned_vars : p.reg = k[1] /\ p.source = k[2]
    THEN (CHOOSE p \in planned_vars : p.reg = k[1] /\ p.source = k[2]).var
    ELSE 0

\* C9: when assign_naive_phis has returned, the (register, source) keys of
\* the sources of every phi that got a name are in the persistent
\* planned_vars and have one representative; in the following pass these
\* keys have one shared Var, and the initial state of the node of the phi
\* holds a PlannedPhiExpr for the register.
C9_NamedPhiIsPlannedNextPass ==
    /\ pc = "done" =>
          \A e \in UsedNaivePhis :
              exprs[e].named =>
                  \A i, j \in 1..Len(exprs[e].sources) :
                      /\ <<exprs[e].reg, exprs[e].sources[i]>> \in DOMAIN persistent_planned_vars
                      /\ Representative(persistent_planned_vars,
                                        <<exprs[e].reg, exprs[e].sources[i]>>)
                         = Representative(persistent_planned_vars,
                                          <<exprs[e].reg, exprs[e].sources[j]>>)
    /\ pass > 1 =>
          \A rec \in prev_phis :
              rec.named =>
                  /\ \A k1, k2 \in SourceKeys(rec) :
                        PlannedVarOf(k1) # 0 /\ PlannedVarOf(k1) = PlannedVarOf(k2)
                  /\ \A st \in ChildStates :
                        st.node = rec.node =>
                            /\ st.regs[rec.reg].present
                            /\ exprs[st.regs[rec.reg].value].kind = "PlannedPhiExpr"
                            /\ \A k \in SourceKeys(rec) :
                                  exprs[st.regs[rec.reg].value].var = PlannedVarOf(k)

\* The second pass has built the initial state of a node whose phi got a
\* name in the first pass: the register holds a PlannedPhiExpr.
C9_Witness ==
    /\ pass = 2
    /\ \E rec \in prev_phis : \E st \in ChildStates :
          /\ rec.named
          /\ st.node = rec.node
          /\ Len(rec.sources) >= 2
          /\ exprs[st.regs[rec.reg].value].kind = "PlannedPhiExpr"

\* C10 (as stated): a pass creates no NaivePhiExpr for a (register, node)
\* pair whose phi got a replacement_expr in the previous pass.
C10_NoNaivePhiForReplaced ==
    pass > 1 =>
        \A rec \in prev_phis :
            rec.replaced =>
                ~\E e \in NaivePhiExprs :
                    exprs[e].reg = rec.reg /\ exprs[e].node = rec.node

\* C10 (amended): a pass creates no NaivePhiExpr for a (register, node) pair
\* whose phi got a replacement_expr in the previous pass and was recorded
\* as a planned inherited phi (the dominator was one of its sources and the
\* values of the sources were equal without unwrapping temporaries): the
\* node then starts with the value the register has at the end of the
\* dominator.
C10_NoNaivePhiForInherited ==
    pass > 1 =>
        \A rec \in prev_phis :
            (rec.replaced /\ rec.inherited) =>
                /\ rec.uses_dominator
                /\ ~\E e \in NaivePhiExprs :
                       exprs[e].reg = rec.reg /\ exprs[e].node = rec.node
                /\ \A st \in ChildStates :
                      st.node = rec.node =>
                          /\ st.regs[rec.reg].present
                          /\ st.regs[rec.reg].value = DominatorRegs(st.node)[rec.reg].value
                          /\ ~st.regs[rec.reg].initial

\* The second pass has built the initial state of a node whose phi was
\* replaced by the shared value in the first pass and recorded as a planned
\* inherited phi: the register holds the value of the dominator.
C10_Witness ==
    /\ pass = 2
    /\ \E rec \in prev_phis : \E st \in ChildStates :
          /\ rec.replaced /\ rec.inherited
          /\ st.node = rec.node
          /\ st.regs[rec.reg].present
          /\ st.regs[rec.reg].value = DominatorRegs(st.node)[rec.reg].value

\* ------------------------------------------------------------------------
\* Properties of the handling of errors (functions whose instructions do not
\* keep to their declarations)
\* ------------------------------------------------------------------------

\* The i-th instruction of a block raises an exception when it is evaluated
\* after the instructions before it: its handler asks for a missing
\* argument, writes a register that is not a declared output, sets a second
\* branch condition or one in a node that is not a ConditionalNode, or, for
\* a conditional instruction, sets none.
InstrRaises(block, conditional, i) ==
    LET instr == block[i] IN
    \/ instr.eval_fn /\ instr.short
    \/ /\ instr.eval_fn
       /\ instr.kind \in {"li", "move", "xor", "lw"}
       /\ instr.rd # "zero"
       /\ instr.rd \notin instr.outputs
    \/ /\ instr.is_conditional
       /\ \E j \in 1..(i - 1) : block[j].kind = "bnez" /\ block[j].eval_fn
    \/ instr.is_conditional /\ ~instr.eval_fn
    \/ instr.eval_fn /\ instr.kind = "bnez" /\ ~conditional

\* The position of the first instruction of node n that raises (0 when
\* none does).
FirstFault(n) ==
    LET block == graph.blocks[n]
        faults == {i \in 1..Len(block) : InstrRaises(block, n \in graph.conditional, i)}
    IN IF faults = {} THEN 0 ELSE CHOOSE i \in faults : \A j \in faults : i <= j

\* The statements of a block info are comments, and there is one at least.
OnlyComments(info) ==
    /\ info.to_write # <<>>
    /\ \A i \in 1..Len(info.to_write) : info.to_write[i].kind = "CommentStmt"

\* The block info translate_block makes of an exception.
IsErrorInfo(info) ==
    /\ info.present
    /\ OnlyComments(info)
    /\ info.branch_condition # 0
    /\ exprs[info.branch_condition].kind = "ErrorExpr"
    /\ info.switch_control = 0
    /\ ~info.has_function_call

\* C11: while translate_all_blocks runs, with stop_on_error off a node with
\* an instruction that raises gets a block info made of error comments only,
\* with an ErrorExpr as branch condition and no switch control, its register
\* state has no active instruction, no exception leaves translate_all_blocks,
\* the nodes without such an instruction get no error comment, and when the
\* worklist is empty every non-terminal node has been translated; with
\* stop_on_error on, the first node with an instruction that raises is the
\* last node translated: the exception leaves translate_all_blocks and the
\* node gets no block info.
C11_ErrorConfinedToNode ==
    pc = "translate" =>
        /\ \A n \in Translated :
              IF FirstFault(n) = 0
              THEN /\ block_info[n].present
                   /\ ~IsErrorInfo(block_info[n])
                   /\ \A i \in 1..Len(block_info[n].to_write) :
                          block_info[n].to_write[i].kind # "CommentStmt"
                   /\ block_info[n].active_instr = 0
              ELSE IF stop_on_error
              THEN /\ raised # ""
                   /\ ~block_info[n].present
                   /\ n = order[Len(order)]
              ELSE /\ IsErrorInfo(block_info[n])
                   /\ block_info[n].active_instr = 0
        /\ raised # "" => stop_on_error /\ FirstFault(order[Len(order)]) # 0
        /\ (raised = "" /\ translate_stack = <<>>) => Translated = Nodes(graph)

\* With stop_on_error off, the first node of a function of three nodes has
\* an instruction that raises, and all three nodes have been translated.
C11_Witness ==
    /\ pc = "translate"
    /\ ~stop_on_error
    /\ translate_stack = <<>>
    /\ FirstFault(1) # 0
    /\ IsErrorInfo(block_info[1])
    /\ FirstFault(3) = 0
    /\ block_info[3].present
    /\ Len(order) = 3

\* The i-th instruction of the block of a ConditionalNode fails one of the
\* assertions on branch conditions: it is a conditional instruction that
\* comes when a branch condition is set already, or one whose handler sets
\* none.
ConditionRaises(block, i) ==
    /\ block[i].is_conditional
    /\ \/ \E j \in 1..(i - 1) : block[j].kind = "bnez" /\ block[j].eval_fn
       \/ ~block[i].eval_fn

\* The first instruction of node n that raises does so for its branch
\* condition.
ConditionFault(n) ==
    FirstFault(n) # 0 /\ ConditionRaises(graph.blocks[n], FirstFault(n))

\* Exactly one of branch_condition and switch_control of a block info is set.
ExactlyOneSet(info) == (info.branch_condition # 0) # (info.switch_control # 0)

\* C12 (as stated): a ConditionalNode whose instructions raise nothing ends
\* with exactly one of branch_condition and switch_control set, and a
\* ConditionalNode in which a conditional instruction sets none, or comes when
\* one is set already, aborts the function whatever stop_on_error is: an
\* exception leaves translate_all_blocks and the node gets no block info.
C12_MissingConditionIsFatal ==
    pc = "translate" =>
        \A n \in Translated \cap graph.conditional :
            /\ FirstFault(n) = 0 =>
                  block_info[n].present /\ ExactlyOneSet(block_info[n])
            /\ ConditionFault(n) =>
                  /\ raised # ""
                  /\ ~block_info[n].present

\* C12 (amended): every ConditionalNode that has a block info has exactly
\* one of branch_condition and switch_control set; when its instructions
\* raise nothing, it is the condition the branch instruction has set.  A
\* conditional instruction that sets none, or comes when one is set already,
\* fails an assertion, which translate_block handles as any exception: with
\* stop_on_error off the node gets the block info of an error (comments and
\* an ErrorExpr as branch condition) and translation goes on, with
\* stop_on_error on the AssertionError leaves translate_all_blocks.
C12_MissingConditionIsCaught ==
    pc = "translate" =>
        \A n \in Translated \cap graph.conditional :
            /\ block_info[n].present => ExactlyOneSet(block_info[n])
            /\ FirstFault(n) = 0 =>
                  /\ block_info[n].present
                  /\ exprs[block_info[n].branch_condition].kind = "BinaryOp"
            /\ ConditionFault(n) =>
                  IF stop_on_error
                  THEN /\ raised = "AssertionError"
                       /\ ~block_info[n].present
                       /\ n = order[Len(order)]
                  ELSE /\ raised = ""
                       /\ IsErrorInfo(block_info[n])

\* With stop_on_error off, a ConditionalNode whose branch instruction sets
\* no condition has the block info of an error, and the nodes it dominates
\* have been translated after it.
C12_Witness ==
    /\ pc = "translate"
    /\ ~stop_on_error
    /\ \E n \in Translated \cap graph.conditional :
          /\ ConditionFault(n)
          /\ ~graph.blocks[n][FirstFault(n)].eval_fn
          /\ IsErrorInfo(block_info[n])
          /\ order[Len(order)] # n

\* The first instruction of node n that raises is a handler that writes a
\* register its instruction does not declare as an output.
UndeclaredWriteFault(n) ==
    /\ FirstFault(n) # 0
    /\ LET instr == graph.blocks[n][FirstFault(n)] IN
          /\ instr.eval_fn /\ ~instr.short /\ ~instr.is_conditional
          /\ instr.kind \in {"li", "move", "xor", "lw"}
          /\ instr.rd # "zero"
          /\ instr.rd \notin instr.outputs

\* The node translate_all_blocks takes from the worklist next.
NextNodeState == translate_stack[Len(translate_stack)]

\* C13 (as stated): when the first instruction of the node that is
\* translated writes a register it does not declare as an output, the
\* registers of the node state stay as they were, and an exception leaves
\* translate_all_blocks, with stop_on_error on or off: the node gets no block
\* info.
C13_UndeclaredWriteIsFatal ==
    /\ [](pc = "translate" =>
            \A n \in Translated :
                UndeclaredWriteFault(n) => raised # "" /\ ~block_info[n].present)
    /\ [][(/\ pc = "translate" /\ raised = "" /\ translate_stack # <<>>
           /\ UndeclaredWriteFault(NextNodeState.node)
           /\ FirstFault(NextNodeState.node) = 1)
          => \A r \in AllRegs : regs'[r] = NextNodeState.regs[r]]_allVars

\* C13 (amended): when the first instruction of the node that is translated
\* writes a register it does not declare as an output, set_with_meta raises
\* DecompFailure and the registers of the node state stay as they were;
\* with stop_on_error off translate_block catches the exception and the node
\* gets the block info of an error (comments, ErrorExpr as branch
\* condition), with stop_on_error on the exception leaves
\* translate_all_blocks and the node gets no block info.
C13_UndeclaredWriteIsCaught ==
    /\ [](pc = "translate" =>
            \A n \in Translated :
                UndeclaredWriteFault(n) =>
                    IF stop_on_error
                    THEN /\ raised = "DecompFailure"
                         /\ ~block_info[n].present
                         /\ n = order[Len(order)]
                    ELSE /\ raised = ""
                         /\ IsErrorInfo(block_info[n]))
    /\ [][(/\ pc = "translate" /\ raised = "" /\ translate_stack # <<>>
           /\ UndeclaredWriteFault(NextNodeState.node)
           /\ FirstFault(NextNodeState.node) = 1)
          => \A r \in AllRegs : regs'[r] = NextNodeState.regs[r]]_allVars

\* With stop_on_error off, a node that is not the entry node and whose
\* instruction writes an undeclared register has the block info of an error,
\* and the register is still without entry.
C13_Witness ==
    /\ pc = "translate"
    /\ ~stop_on_error
    /\ \E n \in Translated \ {1} :
          /\ UndeclaredWriteFault(n)
          /\ IsErrorInfo(block_info[n])
          /\ ~block_info[n].final_register_states[graph.blocks[n][FirstFault(n)].rd].present

\* The reads of the last operation made by an instruction of a register it
\* does not declare as an input.
UndeclaredReads ==
    {i \in 1..Len(reads) : reads[i].instr # 0 /\ ~reads[i].declared}

\* An expression is built from e or a statement of the node state holds it.
FlowsOn(e) ==
    \/ \E x \in 1..Len(exprs) : exprs[x].x = e \/ exprs[x].y = e
    \/ \E i \in 1..Len(to_write) : to_write[i].expr = e \/ to_write[i].dest = e

\* The node translated last.
LastNode == order[Len(order)]

\* C14 (as stated): when an instruction of the node translated last has
\* read a register it does not declare as an input, the read has raised an
\* exception: the node has the block info of an error or the exception has
\* left translate_all_blocks, and no expression is built from what the read
\* returned.
C14_UndeclaredReadIsFatal ==
    pc = "translate" =>
        \A i \in UndeclaredReads :
            /\ reads[i].raised
            /\ raised # "" \/ IsErrorInfo(block_info[LastNode])
            /\ ~FlowsOn(reads[i].ret)

\* C14 (amended): when an instruction of the node translated last has read
\* a register it does not declare as an input, the read has raised nothing
\* and has returned a new ErrorExpr, whether or not the register has an
\* entry, leaving contents, metadata and read_inherited as they were; the
\* handler has gone on with it (an expression is built from it or a
\* statement holds it), and a node whose instructions raise nothing has an
\* ordinary block info.
C14_UndeclaredReadIsErrorExpr ==
    pc = "translate" =>
        \A i \in UndeclaredReads :
            /\ ~reads[i].raised
            /\ exprs[reads[i].ret].kind = "ErrorExpr"
            /\ reads[i].unchanged
            /\ FlowsOn(reads[i].ret)
            /\ FirstFault(LastNode) = 0 =>
                  /\ raised = ""
                  /\ block_info[LastNode].present
                  /\ ~IsErrorInfo(block_info[LastNode])

\* An instruction has read a register that has an entry but that it does
\* not declare; the node has an ordinary block info, and a StoreStmt of the
\* node stores the wrapper of the ErrorExpr the read returned.
C14_Witness ==
    /\ pc = "translate"
    /\ \E i \in UndeclaredReads :
          /\ reads[i].present
          /\ exprs[reads[i].ret].kind = "ErrorExpr"
          /\ block_info[LastNode].present
          /\ \E j \in 1..Len(block_info[LastNode].to_write) :
                /\ block_info[LastNode].to_write[j].kind = "StoreStmt"
                /\ exprs[block_info[LastNode].to_write[j].expr].x = reads[i].ret

\* The first instruction of node n that raises is one whose handler asks
\* for an argument the instruction does not have.
ShortFault(n) ==
    /\ FirstFault(n) # 0
    /\ graph.blocks[n][FirstFault(n)].eval_fn
    /\ graph.blocks[n][FirstFault(n)].short
    /\ ~ConditionRaises(graph.blocks[n], FirstFault(n))

\* The instructions of node n after its first instruction that raises.
InstrsAfterFault(n) ==
    {graph.blocks[n][i].id : i \in (FirstFault(n) + 1)..Len(graph.blocks[n])}

\* A register of the RegInfo holds a value made by one of the instructions.
HoldsValueOf(registers, ids) ==
    \E r \in Regs : registers[r].present /\ exprs[registers[r].value].source \in ids

\* C15 (as stated): a node in which a handler asks for an argument its
\* instruction does not have is translated without an exception: nothing
\* leaves translate_all_blocks, the node has an ordinary block info that
\* keeps the statements produced before that instruction, and the
\* instructions after it are evaluated.
C15_MissingArgumentIsLocal ==
    pc = "translate" =>
        \A n \in Translated :
            ShortFault(n) =>
                /\ raised = ""
                /\ block_info[n].present
                /\ ~IsErrorInfo(block_info[n])
                /\ \E i \in 1..Len(block_info[n].to_write) :
                      block_info[n].to_write[i].kind # "CommentStmt"
                /\ HoldsValueOf(block_info[n].final_register_states, InstrsAfterFault(n))

\* C15 (amended): a handler that asks for an argument its instruction does
\* not have raises DecompFailure, which ends the translation of the node:
\* with stop_on_error off the node gets the block info of an error, whose
\* statements are the error comments only (the statements produced before
\* are not kept), and the instructions after the faulty one are not
\* evaluated; with stop_on_error on the exception leaves
\* translate_all_blocks.
C15_MissingArgumentEndsNode ==
    pc = "translate" =>
        \A n \in Translated :
            ShortFault(n) =>
                IF stop_on_error
                THEN /\ raised = "DecompFailure"
                     /\ ~block_info[n].present
                     /\ n = LastNode
                ELSE /\ raised = ""
                     /\ IsErrorInfo(block_info[n])
                     /\ ~HoldsValueOf(block_info[n].final_register_states,
                                      InstrsAfterFault(n))

\* With stop_on_error off, a node has produced a statement, then met an
\* instruction without the argument its handler asks for, with a load after
\* it: the node has the block info of an error and the nodes after it have
\* been translated.
C15_Witness ==
    /\ pc = "translate"
    /\ ~stop_on_error
    /\ translate_stack = <<>>
    /\ \E n \in Translated :
          /\ ShortFault(n)
          /\ FirstFault(n) = 2
          /\ InstrsAfterFault(n) # {}
          /\ IsErrorInfo(block_info[n])
          /\ n # LastNode

\* The reads of the zero register in the last operation.
ZeroReads == {i \in 1..Len(reads) : reads[i].key = "zero"}

IsLiteralZero(pool, e) == pool[e].kind = "Literal" /\ pool[e].val = 0

\* No RegInfo of the state has an entry for the zero register.
NoZeroEntry ==
    /\ ~regs["zero"].present
    /\ \A n \in Nodes(graph) : ~block_info[n].final_register_states["zero"].present
    /\ \A i \in 1..Len(translate_stack) : ~translate_stack[i].regs["zero"].present

\* What a read of the zero register gives in the current state when no
\* instruction is active.
ZeroReadOutside == ReadReg(Machine, "zero")

\* C16 (as stated): every read of the zero register, by an instruction that
\* declares it as an input or not, or outside an instruction, has given a
\* Literal 0, and no RegInfo has an entry for the zero register.
C16_ZeroAlwaysLiteral ==
    /\ \A i \in ZeroReads : IsLiteralZero(exprs, reads[i].ret)
    /\ IsLiteralZero(ZeroReadOutside.exprs, ZeroReadOutside.ret)
    /\ NoZeroEntry

\* C16 (amended): a read of the zero register gives a Literal 0 when no
\* instruction is active or when the active instruction declares zero as
\* an input, and an ErrorExpr when the active instruction does not declare
\* it; in both cases nothing is raised and the register contents stay as
\* they were.  No RegInfo has an entry for the zero register: an instruction
\* that writes it has its value emitted as an ExprStmt.
C16_ZeroLiteralWhenDeclared ==
    /\ \A i \in ZeroReads :
          /\ IF reads[i].instr = 0 \/ reads[i].declared
             THEN IsLiteralZero(exprs, reads[i].ret)
             ELSE exprs[reads[i].ret].kind = "ErrorExpr"
          /\ ~reads[i].raised
          /\ reads[i].unchanged
    /\ IsLiteralZero(ZeroReadOutside.exprs, ZeroReadOutside.ret)
    /\ \A r \in AllRegs : ZeroReadOutside.regs[r] = regs[r]
    /\ NoZeroEntry
    /\ pc = "translate" =>
          \A n \in Translated :
              (FirstFault(n) = 0 /\ block_info[n].present) =>
                  \A k \in 1..Len(graph.blocks[n]) :
                      (graph.blocks[n][k].kind = "lw" /\ graph.blocks[n][k].rd = "zero") =>
                          \E j \in 1..Len(block_info[n].to_write) :
                              /\ block_info[n].to_write[j].kind = "ExprStmt"
                              /\ exprs[block_info[n].to_write[j].expr].source
                                     = graph.blocks[n][k].id

\* An instruction that declares the zero register as an input has read it
\* and has put the Literal 0 into its output register, and a node translated
\* before has emitted the value loaded into the zero register as an ExprStmt.
C16_Witness ==
    /\ pc = "translate"
    /\ \E n \in Translated : \E j \in 1..Len(block_info[n].to_write) :
          block_info[n].to_write[j].kind = "ExprStmt"
    /\ \E i \in ZeroReads :
          /\ reads[i].instr # 0
          /\ reads[i].declared
          /\ IsLiteralZero(exprs, reads[i].ret)
          /\ regs["v0"].present
          /\ exprs[regs["v0"].value].x = reads[i].ret

\* The reads, in the last operation, of a register without entry.
UnsetReads == {i \in 1..Len(reads) : reads[i].key # "zero" /\ ~reads[i].present}

EmitExactlyOnceStmts ==
    {i \in 1..Len(to_write) :
        /\ to_write[i].kind = "EvalOnceStmt"
        /\ exprs[to_write[i].expr].emit_exactly_once}

\* C18 (as stated): the EvalOnceStmt of an emit_exactly_once wrapper is
\* written in every state, however many times the wrapper was used.
C18_CallAlwaysWritten ==
    \A i \in EmitExactlyOnceStmts : ShouldWrite(Machine, to_write[i])

\* C18 (amended): the EvalOnceStmt of an emit_exactly_once wrapper is written
\* when the wrapper received no use() call (the call is a statement of its
\* own) or at least two (its Var is emitted and assigned); after exactly one
\* use() call it is not written and the call is formatted at its one use.
C18_CallWrittenUnlessUsedOnce ==
    \A i \in EmitExactlyOnceStmts :
        LET e == to_write[i].expr IN
        /\ ShouldWrite(Machine, to_write[i]) <=> use_calls[e] # 1
        /\ use_calls[e] = 0 => ~exprs[e].is_used
        /\ use_calls[e] = 1 => exprs[e].is_used /\ ~IsEmitted(e)
        /\ use_calls[e] >= 2 => exprs[e].is_used /\ IsEmitted(e)

\* A function-call result that was used once and is not written, next to
\* one that was used more than once and is written.
C18_Witness ==
    /\ \E i \in EmitExactlyOnceStmts :
          /\ use_calls[to_write[i].expr] = 1
          /\ ~ShouldWrite(Machine, to_write[i])
    /\ \E i \in EmitExactlyOnceStmts :
          /\ use_calls[to_write[i].expr] >= 2
          /\ ShouldWrite(Machine, to_write[i])

\* The trivial wrappers, and the statements _eval_once wrote for a wrapper.
TrivialExprs == {e \in EvalOnceExprs : exprs[e].trivial}

StmtsOf(e) == {i \in 1..Len(to_write) :
                  to_write[i].kind = "EvalOnceStmt" /\ to_write[i].expr = e}

HasPlannedVar(e) == \E p \in planned_vars : p.var = exprs[e].var

\* C19 (as stated): a trivial EvalOnceExpr, with or without a planned
\* variable and whatever use() and force() calls it received, does not use
\* its Var, is formatted as its wrapped expression, and has no assignment to
\* its Var written.
C19_TrivialNeverAssigned ==
    \A e \in TrivialExprs :
        /\ ~UsesVar(Machine, e)
        /\ EvalOnceExprFormat(Machine, e) = <<"expr", exprs[e].x>>
        /\ \A i \in StmtsOf(e) : ~ShouldWrite(Machine, to_write[i])

\* C19 (amended): a trivial EvalOnceExpr, whatever use() and force() calls
\* it received, does not use its Var and is formatted as its wrapped
\* expression; force() never marks it; its Var is emitted, and the
\* assignment of the wrapped expression to the Var is written, exactly when
\* the wrapper was created with a planned variable.
C19_TrivialAssignedWhenPlanned ==
    \A e \in TrivialExprs :
        /\ ~UsesVar(Machine, e)
        /\ EvalOnceExprFormat(Machine, e) = <<"expr", exprs[e].x>>
        /\ ~exprs[e].forced_emit
        /\ IsEmitted(e) <=> HasPlannedVar(e)
        /\ StmtsOf(e) # {}
        /\ \A i \in StmtsOf(e) : ShouldWrite(Machine, to_write[i]) <=> HasPlannedVar(e)

\* A trivial wrapper with a planned variable that was used again after its
\* creation and whose assignment is written, next to a trivial wrapper
\* without planned variable that was used more than once and has none.
C19_Witness ==
    /\ \E e \in TrivialExprs :
          /\ HasPlannedVar(e)
          /\ use_calls[e] >= 2
          /\ \E i \in StmtsOf(e) : ShouldWrite(Machine, to_write[i])
    /\ \E e \in TrivialExprs :
          /\ ~HasPlannedVar(e)
          /\ use_calls[e] >= 2
          /\ \A i \in StmtsOf(e) : ~ShouldWrite(Machine, to_write[i])

\* The objects use() and force() can change are the same in two machines.
SameObjects(m1, m2) ==
    /\ m1.exprs = m2.exprs
    /\ m1.vars = m2.vars
    /\ m1.use_calls = m2.use_calls
    /\ m1.used_naive_phis = m2.used_naive_phis

\* The wrapper is opaque and emitted: it is marked, used, its Var is emitted
\* and neither early_unwrap nor late_unwrap looks through it.
OpaqueAndEmitted(m, e) ==
    /\ m.exprs[e].forced_emit
    /\ m.exprs[e].is_used
    /\ m.vars[m.exprs[e].var].is_emitted
    /\ EarlyUnwrap(m, e) = e
    /\ LateUnwrap(m, e) = e

\* C20: in every state, force() on a non-trivial EvalOnceExpr leaves it
\* opaque and emitted, force() on a trivial one changes nothing, and a second
\* force() changes no object and makes no further use() call; a wrapper on
\* which force() was called is opaque and emitted ever after.
C20_ForceMakesOpaqueOnce ==
    \A e \in EvalOnceExprs :
        /\ exprs[e].trivial => SameObjects(Force(Machine, e), Machine)
        /\ ~exprs[e].trivial =>
              /\ OpaqueAndEmitted(Force(Machine, e), e)
              /\ SameObjects(Force(Force(Machine, e), e), Force(Machine, e))
        /\ exprs[e].forced_emit =>
              /\ ~exprs[e].trivial
              /\ OpaqueAndEmitted(Machine, e)
              /\ SameObjects(Force(Machine, e), Machine)

\* force() was called on a transparent wrapper without planned variable
\* that had been used before, next to a trivial wrapper that has been used.
C20_Witness ==
    /\ \E e \in EvalOnceExprs :
          /\ exprs[e].forced_emit /\ exprs[e].transparent
          /\ ~HasPlannedVar(e)
          /\ use_calls[e] >= 3
    /\ \E e \in TrivialExprs : use_calls[e] >= 1

\* The register-to-expression mapping of a RegInfo: which registers have an
\* entry, and the expression object each entry holds.
SameMapping(a, b) ==
    \A r \in AllRegs : a[r].present = b[r].present /\ a[r].value = b[r].value

\* C21: within a pass, no step (the translation of another node, metadata
\* propagation, phi resolution) adds, removes or replaces an entry of the
\* final register state of a node whose translation has ended.
C21_FinalStateFrozen ==
    [][pass' = pass =>
          \A n \in Nodes(graph) :
              block_info[n].present =>
                  SameMapping(block_info'[n].final_register_states,
                              block_info[n].final_register_states)]_allVars

\* The pass is over, and a node that wrote a register has ended with another
\* mapping than its immediate dominator, whose final state has had a flag
\* set since.
C21_Witness ==
    /\ pc = "done"
    /\ \E n \in Nodes(graph) :
          /\ n # 1
          /\ ~SameMapping(block_info[n].final_register_states,
                          block_info[graph.immediate_dominator[n]].final_register_states)
          /\ \E r \in Regs :
                LET d == block_info[graph.immediate_dominator[n]].final_register_states[r]
                IN d.present /\ d.is_read /\ d.uninteresting

\* ------------------------------------------------------------------------
\* Properties of the stack layout
\* ------------------------------------------------------------------------

\* get_stack_info has returned a StackInfo.
StackInfoReturned == pc = "stack" /\ stack_info.raised = ""

\* The byte offsets of the frame and of the caller's argument area.
Locations == 0..(stack_info.allocated_stack_size + CallerArea - 1)

\* The region predicates that hold of a location.
RegionsOf(location) ==
    (IF InCalleeSaveRegRegion(stack_info, location) THEN {"callee-saved"} ELSE {})
    \cup (IF InSubroutineArgRegion(stack_info, location)
          THEN {"subroutine-argument"} ELSE {})
    \cup (IF LocationAboveStack(stack_info, location) THEN {"caller-argument"} ELSE {})

\* C22 (as stated): of every location of the range at most one of the three
\* region predicates holds (a location of which none holds is local), on
\* MIPS and on PPC.
C22_RegionsDisjoint ==
    StackInfoReturned =>
        \A location \in Locations : Cardinality(RegionsOf(location)) <= 1

\* C22 (amended): for a function that saves its registers inside its frame,
\* the region predicates are pairwise disjoint on MIPS; on PPC the location
\* allocated_stack_size + 4 is both callee-saved and above the stack, and
\* that is the only overlap; get_stack_var tests callee-saved first, then
\* above the stack, then subroutine argument, so that it gives every
\* location one class.
C22_RegionsDisjointButLinkSlot ==
    StackInfoReturned =>
        /\ \A location \in Locations :
              IF /\ stack_info.function.arch = "ppc"
                 /\ location = stack_info.allocated_stack_size + 4
              THEN RegionsOf(location) = {"callee-saved", "caller-argument"}
              ELSE Cardinality(RegionsOf(location)) <= 1
        /\ \A location \in Locations :
              LET regions == RegionsOf(location) IN
              /\ GetStackVar(stack_info, location) =
                    IF "callee-saved" \in regions THEN "callee-saved"
                    ELSE IF regions = {} THEN "local"
                    ELSE CHOOSE r \in regions : TRUE
              /\ stack_var.location = location =>
                    stack_var.kind = GetStackVar(stack_info, location)

\* get_stack_var has classified the slot of the saved link register of a PPC
\* function that saves registers and calls another function: the slot lies
\* above the frame and is classified callee-saved.
C22_Witness ==
    /\ StackInfoReturned
    /\ stack_info.function.arch = "ppc"
    /\ stack_info.function.saved # <<>>
    /\ ~stack_info.is_leaf
    /\ stack_var.location = stack_info.allocated_stack_size + 4
    /\ LocationAboveStack(stack_info, stack_var.location)
    /\ stack_var.kind = "callee-saved"

\* The offsets at which the function saves registers.
SavedOffsets == {stack_info.function.saved[i] : i \in 1..Len(stack_info.function.saved)}

\* The steps from one saved offset to the next higher one.
SavedSteps ==
    {p \in SavedOffsets \X SavedOffsets :
        /\ p[1] < p[2]
        /\ \A o \in SavedOffsets : ~(p[1] < o /\ o < p[2])}

\* Contiguous words with at most one gap of one word.
OneGapAtMost ==
    /\ \A p \in SavedSteps : p[2] - p[1] \in {4, 8}
    /\ Cardinality({p \in SavedSteps : p[2] - p[1] = 8}) <= 1

\* C23: after get_stack_info on a function that saves registers, the
\* callee-saved region is set, to (lowest offset, highest offset + 4),
\* exactly when the saved offsets are contiguous words with at most one gap
\* of one word; otherwise DecompFailure is raised; and where the region is
\* set subroutine_arg_top is not above its lower bound.
C23_RegionOrFailure ==
    (pc = "stack" /\ stack_info.raised # "none" /\ SavedOffsets # {}) =>
        IF OneGapAtMost
        THEN /\ stack_info.raised = ""
             /\ \A o \in SavedOffsets :
                   /\ stack_info.callee_save_reg_region[1] <= o
                   /\ o + 4 <= stack_info.callee_save_reg_region[2]
             /\ stack_info.callee_save_reg_region[1] \in SavedOffsets
             /\ stack_info.callee_save_reg_region[2] - 4 \in SavedOffsets
             /\ stack_info.subroutine_arg_top <= stack_info.callee_save_reg_region[1]
        ELSE stack_info.raised = "DecompFailure"

\* get_stack_info has accepted three saved registers with a gap between
\* them, in a function whose scan had put subroutine_arg_top above them.
C23_Witness ==
    /\ pc = "stack"
    /\ stack_info.raised = ""
    /\ Cardinality(SavedOffsets) = 3
    /\ \E p \in SavedSteps : p[2] - p[1] = 8
    /\ ~stack_info.is_leaf
    /\ stack_info.function.arch = "mips"
    /\ ScanSubroutineArgTop(stack_info.function) > stack_info.callee_save_reg_region[1]

\* ------------------------------------------------------------------------
\* Properties of the names of the variables
\* ------------------------------------------------------------------------

\* The objects that have a name.
Named == {i \in DOMAIN named : named[i].name # <<>>}

Numbered(prefix) == {prefix \o <<Decimal(n)>> : n \in 2..(MaxNames + 1)}

ReadsS0(instr) == "s0" \in instr.inputs

\* The instruction loads from or stores to the save slot of s0.
AccessesSlot(instr) == instr.kind \in {"lw", "sw"} /\ "sp" \in instr.inputs

\* The block is: the save of s0, which holds its entry value, a body of
\* instructions that satisfy Quiet, the restore of s0.
SavedAndRestored(Quiet(_)) ==
    /\ Len(evaluated) >= 2
    /\ evaluated[1] = SaveS0
    /\ evaluated[Len(evaluated)] = RestoreS0
    /\ \A k \in 2..(Len(evaluated) - 1) : Quiet(evaluated[k])

\* The text of the expression mentions the saved_reg_ symbol of s0 or the
\* slot s0 is saved to.
RECURSIVE RefersToSave(_, _)
RefersToSave(m, e) ==
    /\ e # 0
    /\ \/ m.exprs[e].kind = "GlobalSymbol"
       \/ m.exprs[e].kind = "LocalVar" /\ m.exprs[e].val = SaveS0.val
       \/ \E k \in DOMAIN Dependencies(m, e) : RefersToSave(m, Dependencies(m, e)[k])

\* The statements of the output that mention the register or its slot.
SaveStatements ==
    {k \in DOMAIN to_write :
        /\ ShouldWrite(Machine, to_write[k])
        /\ \/ RefersToSave(Machine, to_write[k].dest)
           \/ IF to_write[k].kind = "EvalOnceStmt"
              THEN RefersToSave(Machine, exprs[to_write[k].expr].x)
              ELSE RefersToSave(Machine, to_write[k].expr)}

\* C25 (as stated): when the register is saved while it holds its entry
\* value and restored later from the same slot, and no instruction in
\* between reads the register, no statement of the output refers to the
\* register or to its slot.
C25_SaveRestoreElided ==
    (pc = "save" /\ SavedAndRestored(LAMBDA instr : ~ReadsS0(instr)))
        => SaveStatements = {}

\* C25 (amended): when the register is saved while it holds its entry value
\* and restored later from the same slot, and no instruction in between
\* reads the register or accesses the slot, no statement of the output
\* refers to the register or to its slot.
C25_SaveRestoreElidedWhenSlotUntouched ==
    (pc = "save" /\ SavedAndRestored(LAMBDA instr : ~ReadsS0(instr) /\ ~AccessesSlot(instr)))
        => SaveStatements = {}

\* The register was saved and restored around a store and a call, which
\* wrote their statements, and the wrapper of the restored value is in the
\* register, unused.
C25_Witness ==
    /\ pc = "save"
    /\ SavedAndRestored(LAMBDA instr : ~ReadsS0(instr) /\ ~AccessesSlot(instr))
    /\ \E k \in DOMAIN to_write : to_write[k].kind = "StoreStmt"
    /\ \E k \in DOMAIN evaluated : "s0" \in evaluated[k].outputs /\ k < Len(evaluated)
    /\ regs["s0"].present
    /\ exprs[regs["s0"].value].kind = "EvalOnceExpr"
    /\ exprs[exprs[regs["s0"].value].x].kind = "LocalVar"
    /\ SaveStatements = {}

\* ------------------------------------------------------------------------
\* Properties of the translation of a leaf function
\* ------------------------------------------------------------------------

\* The block of the function only adds its two arguments into the return
\* register, and the function has been translated.
AddsItsArguments ==
    /\ pc = "done"
    /\ Len(graph.blocks[1]) = 1
    /\ graph.blocks[1][1].kind = "addu"
    /\ graph.blocks[1][1].rs # graph.blocks[1][1].rt

\* The wrapper is the initial value of an argument register: a wrapper of
\* the PassedInArg of the register.
WrapsArgument(e, reg) ==
    /\ exprs[e].kind = "EvalOnceExpr"
    /\ exprs[exprs[e].x].kind = "PassedInArg"
    /\ exprs[exprs[e].x].val = (IF reg = "a0" THEN 0 ELSE 4)

\* The wrapper received one use() call and its Var is not emitted.
UsedOnceUnemitted(e) ==
    /\ use_calls[e] = 1
    /\ ~vars[exprs[e].var].is_emitted
    /\ ~UsesVar(Machine, e)

\* C26: after the translation of a leaf function whose block only adds its
\* two register arguments into the return register, no statement of the
\* block is written, the return_value of the block is the value of the
\* return register in the final register state, a wrapper that is looked
\* through to the sum of the two arguments, and this wrapper and the
\* wrappers of the two arguments were used once and have no Var emitted.
C26_LeafSumReturned ==
    AddsItsArguments =>
        LET info == block_info[1]
            rv == info.return_value
            instr == graph.blocks[1][1]
        IN /\ \A k \in DOMAIN info.to_write : ~ShouldWrite(Machine, info.to_write[k])
           /\ rv # 0
           /\ info.final_register_states["v0"].present
           /\ rv = info.final_register_states["v0"].value
           /\ exprs[rv].kind = "EvalOnceExpr"
           /\ LateUnwrap(Machine, rv) = exprs[rv].x
           /\ exprs[exprs[rv].x].kind = "BinaryOp"
           /\ exprs[exprs[rv].x].val = OpAdd
           /\ WrapsArgument(exprs[exprs[rv].x].x, instr.rs)
           /\ WrapsArgument(exprs[exprs[rv].x].y, instr.rt)
           /\ UsedOnceUnemitted(rv)
           /\ UsedOnceUnemitted(exprs[exprs[rv].x].x)
           /\ UsedOnceUnemitted(exprs[exprs[rv].x].y)
           /\ \A v \in DOMAIN vars : ~vars[v].is_emitted

\* The function "addu v0, a0, a1" has been translated and its return value
\* was read from the return register, which is marked read.
C26_Witness ==
    /\ AddsItsArguments
    /\ graph.blocks[1][1].rs = "a0"
    /\ graph.blocks[1][1].rt = "a1"
    /\ block_info[1].return_value # 0
    /\ block_info[1].final_register_states["v0"].is_read
    /\ Len(block_info[1].to_write) > 0

\* ------------------------------------------------------------------------
\* Properties of handle_rlwinm
\* ------------------------------------------------------------------------

\* The 32-bit word v mod 2^32 rotated left by n.
Rotl32(v, n) == [i \in Positions |-> PyInt(v).bits[(i - n) % WordBits]]

\* The word whose set bits are the bits mb..me of the processor manual (bit
\* 0 the most significant), through bit 31 to bit 0 when mb > me.
MaskWord(mb, me) ==
    [i \in Positions |->
        LET p == WordBits - 1 - i IN
        IF mb <= me THEN (IF mb <= p /\ p <= me THEN 1 ELSE 0)
        ELSE (IF p >= mb \/ p <= me THEN 1 ELSE 0)]

\* The result of the call is ROTL32(source mod 2^32, shift) AND MASK.
RotatedAndMasked ==
    \A i \in Positions :
        rlwinm.result[i] =
            Rotl32(rlwinm.source, rlwinm.shift)[i]
            * MaskWord(rlwinm.mask_begin, rlwinm.mask_end)[i]

\* C27: handle_rlwinm on a Literal v returns the Literal of
\* ROTL32(v mod 2^32, shift) AND MASK(mb, me), for every shift and mask and
\* every value, negative ones included, where MASK is the word of the bits
\* mb..me, bit 0 the most significant, wrapping when mb > me.
C27_RotateOfLiteral ==
    (pc = "rlwinm" /\ rlwinm.called) => RotatedAndMasked

\* ------------------------------------------------------------------------
\* Properties of fold_divmod
\* ------------------------------------------------------------------------

\* The expression is x / d, with the Literal d.
IsQuotient(expr, d) ==
    /\ IsBinaryOp(expr)
    /\ expr.op = "/"
    /\ expr.left = Dividend
    /\ expr.right = MkLiteral(Long(d))

AtHandler == pc = "profile" /\ request.pc = "handler"

\* The profile of the request is a row of the table as the request has it.
IsSaved(profile) ==
    /\ profile.id \in LiveIds(profiles)
    /\ profiles[profile.id].user = profile.user
    /\ profiles[profile.id].last_request_date = profile.last_request_date

\* C29: when the next handler is called request.profile is a Profile,
\* whatever the request and its session; it is a saved one unless the request
\* comes from the server-side rendering; and a request without user whose
\* session holds the id of a profile without user gets that profile, no new
\* one being made.
C29_ProfileAvailable ==
    AtHandler =>
        /\ ~request.profile.is_none
        /\ ~request.ssr => IsSaved(request.profile)
        /\ (~request.ssr /\ request.user = 0
                /\ request.at_start.held /\ request.at_start.owner = 0)
              => /\ request.profile.id = request.at_start.profile_id.value
                 /\ ~request.created
                 /\ Len(profiles) = request.at_start.rows

\* A second request without user is served with the profile the session
\* held.
C29_Witness ==
    /\ AtHandler
    /\ request.number = 2
    /\ ~request.ssr
    /\ request.user = 0
    /\ request.at_start.held
    /\ request.at_start.owner = 0
    /\ request.profile.id = request.at_start.profile_id.value
    /\ IsSaved(request.profile)

\* C30: the profile of a request without user that does not come from the
\* server-side rendering refers to no user; when the profile the session
\* holds belongs to a user, the request gets a new profile and the session
\* the id of the new profile.
C30_AnonymousProfileHasNoUser ==
    (AtHandler /\ ~request.ssr /\ request.user = 0) =>
        /\ request.profile.user = 0
        /\ profiles[request.profile.id].user = 0
        /\ (request.at_start.held /\ request.at_start.owner # 0)
              => /\ request.created
                 /\ request.profile.id > request.at_start.rows
                 /\ request.profile.id # request.at_start.profile_id.value
                 /\ session.profile_id = IntValue(request.profile.id)

\* A request without user whose session held the profile of a user has got
\* a new profile.
C30_Witness ==
    /\ AtHandler
    /\ ~request.ssr
    /\ request.user = 0
    /\ request.at_start.held
    /\ request.at_start.owner # 0
    /\ request.created
    /\ session.profile_id = IntValue(request.profile.id)

\* ------------------------------------------------------------------------
\* Properties of the result of a function call
\* ------------------------------------------------------------------------

\* The wrappers make_function_call created, and the states a wrapper can be
\* brought to by one more use() or force() call.
CallWrappers == {e \in EvalOnceExprs : exprs[e].emit_exactly_once}

AfterCalls(e) == {Machine, Use(Machine, e), Force(Machine, e),
                  Use(Force(Machine, e), e), Force(Use(Machine, e), e)}

\* Number of places where the output of state m shows the call wrapped by e:
\* the written EvalOnceStmt of e, and every use of e that is formatted as the
\* wrapped expression.
CallPlaces(m, e) ==
    Cardinality({i \in 1..Len(m.to_write) :
                    /\ m.to_write[i].kind = "EvalOnceStmt"
                    /\ m.to_write[i].expr = e
                    /\ ShouldWrite(m, m.to_write[i])})
    + (IF UsesVar(m, e) THEN 0 ELSE m.use_calls[e])

\* C31: the FuncCall of a function-call result has received exactly one
\* use() call, and keeps that count after further use() and force() calls
\* of its wrapper; the call is written at exactly one place: as a statement
\* of its own when the wrapper was never used, at its one use (its
\* EvalOnceStmt not written) when it was used once, and as the assignment to
\* its Var when it was used at least twice.
C31_CallWrittenOnce ==
    \A e \in CallWrappers :
        \A m \in AfterCalls(e) :
            /\ m.use_calls[exprs[e].x] = 1
            /\ CallPlaces(m, e) = 1
            /\ \E i \in 1..Len(m.to_write) :
                  /\ m.to_write[i] = MkStmt("EvalOnceStmt", e, 0)
                  /\ m.use_calls[e] = 0
                        => /\ ShouldWrite(m, m.to_write[i])
                           /\ EvalOnceStmtFormat(m, m.to_write[i])
                                 = <<"expression", exprs[e].x>>
                  /\ m.use_calls[e] = 1
                        => /\ ~ShouldWrite(m, m.to_write[i])
                           /\ EvalOnceExprFormat(m, e) = <<"expr", exprs[e].x>>
                  /\ m.use_calls[e] >= 2
                        => /\ ShouldWrite(m, m.to_write[i])
                           /\ EvalOnceStmtFormat(m, m.to_write[i])
                                 = <<"assignment", exprs[e].var, exprs[e].x>>
                           /\ EvalOnceExprFormat(m, e) = <<"var", exprs[e].var>>

\* Two function-call results side by side: one never used, written as a
\* statement of its own, and one used twice, written as an assignment; each
\* FuncCall has its one use() call.
C31_Witness ==
    \E e0, e2 \in CallWrappers :
        /\ use_calls[e0] = 0 /\ use_calls[e2] = 2
        /\ use_calls[exprs[e0].x] = 1
        /\ use_calls[exprs[e2].x] = 1
        /\ CallPlaces(Machine, e0) = 1
        /\ CallPlaces(Machine, e2) = 1
        /\ \E i \in StmtsOf(e2) :
              EvalOnceStmtFormat(Machine, to_write[i])
                 = <<"assignment", exprs[e2].var, exprs[e2].x>>

\* ------------------------------------------------------------------------
\* Properties of the use() calls an opaque wrapper forwards
\* ------------------------------------------------------------------------

\* The wrappers that are neither trivial, transparent nor emit_exactly_once.
\* The expression such a wrapper wraps is held by the wrapper alone, so its
\* use() calls are the ones the wrapper forwarded.
OpaqueWrappers ==
    {e \in EvalOnceExprs : /\ ~exprs[e].trivial
                           /\ ~exprs[e].transparent
                           /\ ~exprs[e].emit_exactly_once}

\* C32: the expression wrapped by a wrapper that is neither trivial,
\* transparent nor emit_exactly_once has received one use() call when the
\* wrapper received use() or force() calls and none when it received none;
\* the first use() or force() call of the wrapper forwards one use() call
\* and a later one forwards none.
C32_OpaqueForwardsFirstUse ==
    \A e \in OpaqueWrappers :
        LET x == exprs[e].x
            once == IF use_calls[e] = 0 THEN 0 ELSE 1
        IN /\ use_calls[x] = once
           /\ exprs[e].is_used <=> use_calls[e] > 0
           /\ exprs[e].forced_emit => use_calls[e] > 0
           /\ Use(Machine, e).use_calls[x] = 1
           /\ Force(Machine, e).use_calls[x] = 1
           /\ Use(Use(Machine, e), e).use_calls[x] = 1
           /\ Use(Force(Machine, e), e).use_calls[x] = 1
           /\ Force(Force(Machine, e), e).use_calls[x] = 1

\* An opaque wrapper without planned variable that received more than two
\* use() calls, one of them from force(): the expression it wraps has one
\* use() call.
C32_Witness ==
    \E e \in OpaqueWrappers :
        /\ ~HasPlannedVar(e)
        /\ use_calls[e] > 2
        /\ exprs[e].forced_emit
        /\ use_calls[exprs[e].x] = 1

\* ------------------------------------------------------------------------
\* Properties of the reads of a force-flagged register
\* ------------------------------------------------------------------------

\* The registers of the register file contents that are force-flagged and
\* hold a wrapper that is not trivial.
ForceFlagged(contents) ==
    {r \in Regs : /\ contents[r].present
                  /\ contents[r].force
                  /\ exprs[contents[r].value].kind = "EvalOnceExpr"
                  /\ ~exprs[contents[r].value].trivial}

\* The register files of the translation: the one of the node translated
\* last, and the ones of the node states that wait on the worklist.
RegisterFiles ==
    {regs} \cup {translate_stack[i].regs : i \in 1..Len(translate_stack)}

\* The read of register r of the register file contents in the present
\* state.
ReadOf(contents, r) == RegInfoGetItem([Machine EXCEPT !.regs = contents], r)

\* A read of a force-flagged register returns the wrapper the register
\* holds, with its Var emitted: the wrapper is formatted as the Var.
ReadIsEmitted ==
    \A contents \in RegisterFiles :
        \A r \in ForceFlagged(contents) :
            LET m == ReadOf(contents, r) IN
            /\ m.ret = contents[r].value
            /\ UsesVar(m, m.ret)
            /\ EvalOnceExprFormat(m, m.ret) = <<"var", exprs[m.ret].var>>

\* The state of a dominated node has the force flag of every register whose
\* value it takes over from the final state of its immediate dominator.
FlagInherited ==
    \A i \in 1..Len(translate_stack) :
        LET child == translate_stack[i]
            dom == IF graph.immediate_dominator[child.node] \in Nodes(graph)
                   THEN block_info[graph.immediate_dominator[child.node]]
                   ELSE NoBlockInfo
        IN dom.present =>
              \A r \in ForceFlagged(dom.final_register_states) :
                  (/\ child.regs[r].present
                   /\ child.regs[r].value = dom.final_register_states[r].value)
                      => child.regs[r].force

\* The translation of the node on top of the worklist: a register that was
\* force-flagged in the state of the node and still holds the same wrapper
\* at the end keeps the flag, and when the node has read it the Var of the
\* wrapper is emitted.  The Var of a wrapper, once emitted, stays emitted.
FlaggedReadsInNode ==
    (pc = "translate" /\ pc' = "translate" /\ translate_stack # <<>>) =>
        /\ \A r \in ForceFlagged(translate_stack[Len(translate_stack)].regs) :
              LET e == translate_stack[Len(translate_stack)].regs[r].value IN
              (regs'[r].present /\ regs'[r].value = e) =>
                  /\ regs'[r].force
                  /\ regs'[r].is_read => vars'[exprs'[e].var].is_emitted
        /\ \A e \in EvalOnceExprs : IsEmitted(e) => vars'[exprs'[e].var].is_emitted

\* C33: once a register that holds a non-trivial wrapper is force-flagged,
\* every read of it, in the same node or in a node of the dominator tree
\* below that takes the value over, returns the wrapper with its Var
\* emitted (it is formatted as the Var), as long as the register holds
\* that wrapper.
C33_FlaggedReadEmitsVar ==
    /\ []ReadIsEmitted
    /\ []FlagInherited
    /\ [][FlaggedReadsInNode]_allVars

\* A node has just been translated that took a force-flagged register over
\* from its immediate dominator, where it had not been read, and read it:
\* the Var of the wrapper is emitted.
C33_Witness ==
    /\ pc = "translate"
    /\ Len(order) >= 2
    /\ \E r \in ForceFlagged(regs) :
          LET n == order[Len(order)]
              dom == IF graph.immediate_dominator[n] \in Nodes(graph)
                     THEN block_info[graph.immediate_dominator[n]].final_register_states
                     ELSE NoRegisters
          IN /\ graph.immediate_dominator[n] \in Nodes(graph)
             /\ regs[r].inherited
             /\ regs[r].is_read
             /\ r \in ForceFlagged(dom)
             /\ dom[r].value = regs[r].value
             /\ ~dom[r].is_read
             /\ exprs[regs[r].value].forced_emit
             /\ IsEmitted(regs[r].value)

\* ------------------------------------------------------------------------
\* Properties of the union-find structure of the PlannedVars
\* ------------------------------------------------------------------------

\* The PlannedVar reached from k after at most n steps along the _parent
\* pointers.
RECURSIVE Ancestor(_, _, _)
Ancestor(pv, k, n) ==
    IF n = 0 \/ pv[k] = NoParent THEN k ELSE Ancestor(pv, pv[k], n - 1)

\* The _parent pointers form a forest: from every PlannedVar a PlannedVar
\* without _parent is reached in fewer steps than there are PlannedVars.
IsForest(pv) ==
    \A k \in DOMAIN pv :
        pv[Ancestor(pv, k, Cardinality(DOMAIN pv) - 1)] = NoParent

\* The PlannedVars connected with those of the set group by the join()
\* calls made so far.
RECURSIVE Connected(_)
Connected(group) ==
    LET more == group \cup {k \in PlannedKeys :
                               \E x \in group : <<x, k>> \in joined \/ <<k, x>> \in joined}
    IN IF more = group THEN group ELSE Connected(more)

\* The pairs of PlannedVars that share their representative.
SameRepresentative(pv) ==
    {<<a, b>> \in (DOMAIN pv) \X (DOMAIN pv) :
        Representative(pv, a) = Representative(pv, b)}

\* C34: after any join() and get_representative() calls the _parent
\* pointers form a forest, get_representative returns a PlannedVar without
\* _parent, two PlannedVars have the same representative exactly when the
\* join() calls made so far connect them, and the path compression of a
\* get_representative call changes neither the representative of any
\* PlannedVar nor the forest property.
C34_UnionFind ==
    pc = "union" =>
        /\ IsForest(persistent_planned_vars)
        /\ \A a \in PlannedKeys :
              /\ persistent_planned_vars[Representative(persistent_planned_vars, a)] = NoParent
              /\ \A b \in PlannedKeys :
                    Representative(persistent_planned_vars, a)
                        = Representative(persistent_planned_vars, b)
                    <=> b \in Connected({a})
        /\ \A k \in PlannedKeys :
              LET compressed == Compress(persistent_planned_vars, k) IN
              /\ IsForest(compressed)
              /\ \A a \in PlannedKeys :
                    Representative(compressed, a)
                        = Representative(persistent_planned_vars, a)
              /\ SameRepresentative(compressed) = SameRepresentative(persistent_planned_vars)

\* Joins have made a chain of three PlannedVars, and a get_representative
\* call has compressed it: all three are connected, and two of them have
\* the third as _parent.
C34_Witness ==
    /\ pc = "union"
    /\ \E a, b, c \in PlannedKeys :
          /\ a # b /\ b # c /\ a # c
          /\ <<a, b>> \in joined
          /\ <<b, c>> \in joined
          /\ persistent_planned_vars[a] = c
          /\ persistent_planned_vars[b] = c
          /\ persistent_planned_vars[c] = NoParent
          /\ Connected({a}) = {a, b, c}

\* ------------------------------------------------------------------------
\* Properties of the phis that reach assign_naive_phis
\* ------------------------------------------------------------------------

\* C35: every NaivePhiExpr, and so every one that was used and is in the
\* list assign_naive_phis goes through, has at least two sources and belongs
\* to a node with at least two parents; the ones in the list have received
\* at least one use() call.
C35_UsedPhiHasTwoSources ==
    /\ \A e \in NaivePhiExprs :
          /\ Len(exprs[e].sources) >= 2
          /\ Len(graph.parents[exprs[e].node]) >= 2
    /\ \A i \in 1..Len(used_naive_phis) :
          /\ used_naive_phis[i] \in NaivePhiExprs
          /\ exprs[used_naive_phis[i]].num_usages > 0

\* assign_naive_phis has gone through a list with a phi that uses the
\* dominator: the phi has two sources, the source of the value of the
\* dominator and a write on the way from the dominator, and its node has two
\* parents.
C35_Witness ==
    /\ pc = "done"
    /\ \E i \in 1..Len(used_naive_phis) :
          LET phi == exprs[used_naive_phis[i]] IN
          /\ phi.uses_dominator
          /\ phi.num_usages > 0
          /\ Len(phi.sources) = 2
          /\ Len(graph.parents[phi.node]) = 2
          /\ phi.sources[1] # phi.sources[2]

\* ------------------------------------------------------------------------
\* Properties of the use() calls a resolved phi hands to its value
\* ------------------------------------------------------------------------

\* The while loop of assign_naive_phis from the i-th used phi up to, but
\* without, the n-th.
RECURSIVE ResolvedUpTo(_, _, _)
ResolvedUpTo(m, i, n) ==
    IF i >= n \/ i > Len(m.used_naive_phis) THEN m
    ELSE ResolvedUpTo(ResolvePhi(m, m.used_naive_phis[i]), i + 1, n)

\* The phis that assign_naive_phis replaced by the value their sources
\* share.
ResolvedPhis == {e \in NaivePhiExprs : exprs[e].replacement_expr # 0}

\* At the resolution of the n-th used phi, for every n: when the phi is
\* replaced by a value, the value receives, after the reads of the sources,
\* as many use() calls as the phi has received.
UsesReplayed ==
    (pc = "translate" /\ translate_stack = <<>> /\ raised = "") =>
        \A n \in 1..Len(exprs) :
            LET before == ResolvedUpTo(PropagateRegisterMeta(Machine, "v0"), 1, n) IN
            n <= Len(before.used_naive_phis) =>
                LET phi == before.used_naive_phis[n]
                    grouped == GroupSources([before EXCEPT !.groups = <<>>], phi, 1)
                    after == ResolvePhi(before, phi)
                    value == after.exprs[phi].replacement_expr
                IN value # 0 =>
                      /\ after.use_calls[value]
                            = grouped.use_calls[value] + after.exprs[phi].num_usages
                      /\ after.exprs[phi].num_usages = before.exprs[phi].num_usages
                      /\ after.use_calls[phi] = after.exprs[phi].num_usages

\* After assign_naive_phis: a use() call of a replaced phi is counted by the
\* phi and handed on to its value once; the value has received at least the
\* use() calls of the phi.
UsesForwarded ==
    pc = "done" =>
        \A phi \in ResolvedPhis :
            LET value == exprs[phi].replacement_expr
                m == Use(Machine, phi)
            IN /\ use_calls[phi] = exprs[phi].num_usages
               /\ use_calls[value] >= exprs[phi].num_usages
               /\ m.exprs[phi].num_usages = exprs[phi].num_usages + 1
               /\ m.use_calls[value] = use_calls[value] + 1

\* C36 (as stated): after assign_naive_phis the value a NaivePhiExpr was
\* resolved to has received exactly as many use() calls as the phi.
C36_ValueUsesEqualPhiUses ==
    pc = "done" =>
        \A phi \in ResolvedPhis :
            use_calls[exprs[phi].replacement_expr] = exprs[phi].num_usages

\* C36 (amended): the value a NaivePhiExpr is resolved to receives on
\* account of the phi as many use() calls as the phi received: at the
\* resolution one for every use() call the phi had received, and one for
\* every use() call the phi receives afterwards; the use() calls the value
\* receives from its other holders come on top.
C36_ResolvedPhiHandsOnUses ==
    UsesReplayed /\ UsesForwarded

\* assign_naive_phis has replaced a phi that had received use() calls by a
\* value that other holders have used as well: the value has received more
\* use() calls than the phi.
C36_Witness ==
    /\ pc = "done"
    /\ \E phi \in ResolvedPhis :
          /\ exprs[phi].num_usages >= 1
          /\ use_calls[exprs[phi].replacement_expr] > exprs[phi].num_usages

\* ------------------------------------------------------------------------
\* Properties of propagate_register_meta
\* ------------------------------------------------------------------------

\* The parents of node n that hold the register at their end.
HoldingParents(n, reg) ==
    {p \in {graph.parents[n][i] : i \in 1..Len(graph.parents[n])} :
        block_info[p].final_register_states[reg].present}

\* The nodes that hold at their end a value of the register they inherited.
InheritingNodes(reg) ==
    {n \in Nodes(graph) : /\ block_info[n].final_register_states[reg].present
                          /\ block_info[n].final_register_states[reg].inherited}

\* The state propagate_register_meta returns in is a fixpoint: for a node
\* with an inherited value, function_return and in_pattern are true exactly
\* when they are true in all the parents that hold the register; is_read is
\* true in every such parent when the node has read the inherited value.
IsFixpoint(reg) ==
    /\ \A n \in InheritingNodes(reg) :
          LET meta == block_info[n].final_register_states[reg] IN
          /\ meta.function_return <=>
                \A p \in HoldingParents(n, reg) :
                    block_info[p].final_register_states[reg].function_return
          /\ meta.in_pattern <=>
                \A p \in HoldingParents(n, reg) :
                    block_info[p].final_register_states[reg].in_pattern
          /\ meta.is_read =>
                \A p \in HoldingParents(n, reg) :
                    block_info[p].final_register_states[reg].is_read
    /\ \A n \in Nodes(graph) :
          reg \in block_info[n].read_inherited =>
              \A p \in HoldingParents(n, reg) :
                  block_info[p].final_register_states[reg].is_read

\* C37: propagate_register_meta returns for every flow graph, the ones with
\* cycles included, and the state it returns in is a fixpoint of
\* function_return, in_pattern and is_read.
C37_PropagationEndsInFixpoint ==
    /\ <>(propagation.phase = "returned")
    /\ [](propagation.phase = "returned" => IsFixpoint(propagation.reg))

\* propagate_register_meta has returned for a flow graph with a cycle in
\* which a node of the cycle holds an inherited value whose function_return
\* was unset because a parent does not have it.
C37_Witness ==
    /\ propagation.phase = "returned"
    /\ \E n \in InheritingNodes(propagation.reg) :
          /\ ~block_info[n].final_register_states[propagation.reg].function_return
          /\ n \in WalkUntilDominator(graph, graph.parents[n], {}) 
          /\ \E p \in HoldingParents(n, propagation.reg) :
                /\ p \in InheritingNodes(propagation.reg)
                /\ ~block_info[p].final_register_states[propagation.reg].function_return

\* ------------------------------------------------------------------------
\* Properties of the profile of a logged-in request
\* ------------------------------------------------------------------------

\* C38 (as stated): the profile that a request of a logged-in user which does
\* not come from the server-side rendering is handed to the view with
\* refers to that user, whatever profile_id the session holds.
C38_ProfileOfLoggedInUser ==
    (AtHandler /\ ~request.ssr /\ request.user # 0) =>
        request.profile.user = request.user

\* ------------------------------------------------------------------------
\* Properties of requests of one user that run at the same time
\* ------------------------------------------------------------------------

\* The profiles of the table that are attached to a user.
ProfilesOf(user) == {i \in LiveIds(profiles) : profiles[i].user = user}

\* The workers serve a user that had no profile when the requests came in.
UserWithoutProfile ==
    /\ pc = "workers"
    /\ workers # <<>>
    /\ \A w \in WorkerIds : workers[w].without_profile

\* C39 (as stated): however the requests of one logged-in user that had no
\* profile interleave, no request fails the assertion of line 77 and at most
\* one profile of the table ends up attached to the user.
C39_AssertionHoldsOneProfile ==
    UserWithoutProfile =>
        /\ \A w \in WorkerIds : workers[w].request.pc # "AssertionError"
        /\ \A w \in WorkerIds :
              Cardinality(ProfilesOf(workers[w].request.user)) <= 1

====
